---- MODULE Spec2Model ----
(***************************************************************************)
(* Verification model of the La Data Justa ingestion pipeline:             *)
(*   - the Fingerprint Engine (backend/app/scrape/deduplication.py),       *)
(*   - the Item Store insert paths (scraping_items.py, the site scrapers), *)
(*   - the Quality Gate (scraping/auto_prepare.py),                        *)
(*   - the Diversity Curator (scraping/news_curator.py),                   *)
(*   - the Delayed Auto-Publisher (scraping/auto_publish.py).              *)
(* Each component has its own specification over the shared variables.     *)
(***************************************************************************)
EXTENDS Integers, Sequences, FiniteSets, TLC

VARIABLES
    url_u,        \* Fingerprint Engine: the URL under test
    url_v,        \* Fingerprint Engine: a copy of url_u, varied step by step
    now,          \* Item Store: the database clock, NOW()
    scraping_items, \* Item Store: table scraping_items, id -> row
    next_id,      \* Item Store: number of ids handed out so far
    inflight,     \* create endpoint: the requests between their SELECT and INSERT
    last_op,      \* the last handler that ran, with its request and outcome
    cur_in,       \* Curator: the arguments of one select_curated_items call
    cur_out,      \* Curator: what the call computed, stage by stage
    publications, \* table publications, id -> row
    scraping_sources, \* table scraping_sources, the set of its rows
    gate_pass,    \* Quality Gate: the pass in progress and its item list
    gate_log,     \* Quality Gate: the last decision taken on each item
    publish_pass, \* Auto-Publisher: the pass in progress and its item list
    ready_since,  \* history: when each item last entered ready_to_publish
    controller,   \* scraper service: the ScraperController object
    sched,        \* scraper service: the main loop, its locals and position
    logs,         \* control service: log_buffer and the subscribers' queues
    notifier,     \* Telegram notifier: the TelegramNotifier object and its tasks
    config_file   \* control service: the content of CONFIG_FILE

urlVars == <<url_u, url_v>>
storeVars == <<now, scraping_items, next_id, inflight, last_op>>
curVars == <<cur_in, cur_out>>
pipeVars ==
    <<publications, scraping_sources, gate_pass, gate_log, publish_pass,
      ready_since>>
ctlVars == <<controller, sched, logs, notifier, config_file>>
nonUrlVars == <<storeVars, curVars, pipeVars, ctlVars>>
nonStoreVars == <<urlVars, curVars, pipeVars, ctlVars>>
nonCurVars == <<urlVars, storeVars, pipeVars, ctlVars>>

vars == <<url_u, url_v, now, scraping_items, next_id, inflight, last_op,
          cur_in, cur_out, publications, scraping_sources, gate_pass,
          gate_log, publish_pass, ready_since, controller, sched, logs,
          notifier, config_file>>

\* ------------------------------------------------------------------------
\* Generic helpers
\* ------------------------------------------------------------------------
Range(s) == {s[i] : i \in 1..Len(s)}

RECURSIVE Flatten(_)
Flatten(ss) == IF ss = <<>> THEN <<>> ELSE Head(ss) \o Flatten(Tail(ss))

InsertAt(s, i, e) == SubSeq(s, 1, i - 1) \o <<e>> \o SubSeq(s, i, Len(s))

RemoveAt(s, i) == SubSeq(s, 1, i - 1) \o SubSeq(s, i + 1, Len(s))

\* ========================================================================
\* 1. FINGERPRINT ENGINE  (backend/app/scrape/deduplication.py)
\* ========================================================================

\* Bounds of the URL universe.
MaxParams == 2          \* query parameters of the URL under test
MaxTracking == 1        \* tracking parameters added to the copy

\* A URL is the record urlparse() splits it into:
\*   scheme, host, port ("" = none), path = [segs, slashes] where slashes is
\*   the number of "/" characters that end the path, query = sequence of
\*   [k, v] pairs in textual order, fragment.
Schemes == {"http", "https"}
HostSpellings == {"example.com", "Example.com", "EXAMPLE.COM"}
Ports == {"", "80", "443", "8080"}
PathSegs == {<<>>, <<"nota">>}
PlainKeys == {"a", "b"}
ParamValues == {"1", "2"}
Fragments == {"", "top"}

\* str.lower() on the spellings that occur in the model
lower(s) ==
    CASE s = "Example.com" -> "example.com"
      [] s = "EXAMPLE.COM" -> "example.com"
      [] s = "HTTP" -> "http"
      [] s = "HTTPS" -> "https"
      [] s = "SEN" -> "sen"
      [] s = "ENA" -> "ena"
      [] s = "NAD" -> "nad"
      [] s = "ADO" -> "ado"
      [] OTHER -> s

tracking_params ==
    {"utm_source", "utm_medium", "utm_campaign", "utm_term", "utm_content",
     "fbclid", "gclid", "msclkid", "_ga", "mc_cid", "mc_eid"}

\* The order Python's sorted() gives the keys (code-point order).
KeyOrderSeq ==
    <<"_ga", "a", "b", "fbclid", "gclid", "mc_cid", "mc_eid", "msclkid",
      "utm_campaign", "utm_content", "utm_medium", "utm_source", "utm_term">>

KeyRank(k) == CHOOSE i \in 1..Len(KeyOrderSeq) : KeyOrderSeq[i] = k

\* urllib.parse.parse_qs(query, keep_blank_values=True): a dict from key to
\* the list of its values; dict order is the order of first appearance and
\* the values keep their textual order.
parse_qs_add(d, p) ==
    IF \E i \in 1..Len(d) : d[i].k = p.k
    THEN LET i == CHOOSE j \in 1..Len(d) : d[j].k = p.k
         IN  [d EXCEPT ![i].vs = Append(@, p.v)]
    ELSE Append(d, [k |-> p.k, vs |-> <<p.v>>])

RECURSIVE parse_qs_from(_, _)
parse_qs_from(d, q) ==
    IF q = <<>> THEN d ELSE parse_qs_from(parse_qs_add(d, Head(q)), Tail(q))

parse_qs(q) == parse_qs_from(<<>>, q)

\* sorted(filtered_params.items()): the dict items ordered by key
RECURSIVE sorted_items(_)
sorted_items(d) ==
    IF d = <<>> THEN <<>>
    ELSE LET m == CHOOSE i \in 1..Len(d) :
                     \A j \in 1..Len(d) : KeyRank(d[i].k) <= KeyRank(d[j].k)
         IN  <<d[m]>> \o sorted_items(RemoveAt(d, m))

\* urlencode(items, doseq=True): one k=v pair per value, in list order
urlencode(query) ==
    Flatten([i \in 1..Len(query) |->
                [j \in 1..Len(query[i].vs) |->
                    [k |-> query[i].k, v |-> query[i].vs[j]]]])

normalize_url(url) ==
    LET scheme == lower(url.scheme)
        host == lower(url.host)
        port == IF url.port # ""
                   /\ (\/ (scheme = "http" /\ url.port = "80")
                       \/ (scheme = "https" /\ url.port = "443"))
                THEN "" ELSE url.port
        \* parsed.path.rstrip("/") or "/"
        path == IF url.path.segs = <<>>
                THEN [segs |-> <<>>, slashes |-> 1]
                ELSE [segs |-> url.path.segs, slashes |-> 0]
        query_params == parse_qs(url.query)
        filtered_params ==
            SelectSeq(query_params, LAMBDA e : e.k \notin tracking_params)
        sorted_query == urlencode(sorted_items(filtered_params))
    IN  [scheme |-> scheme, host |-> host, port |-> port, path |-> path,
         query |-> sorted_query, fragment |-> ""]

\* hashlib.sha256(text).hexdigest(): a digest that identifies its input
hash_text(text) == <<"sha256", text>>

generate_url_hash(url) == hash_text(normalize_url(url))

\* ---- the URL universe and the variations of a copy ---------------------
NoOp == [name |-> "none"]

\* the value of the Item Store variables in a specification that does not
\* use the store
StoreIdle ==
    /\ now = 0
    /\ scraping_items = <<>>
    /\ next_id = 0
    /\ inflight = {}
    /\ last_op = NoOp

\* the value of the Curator variables in a specification that does not call
\* select_curated_items
CuratorIdle ==
    /\ cur_in = [items |-> <<>>]
    /\ cur_out = [done |-> FALSE]

\* the value of the pipeline variables in a specification without
\* publications, sources and passes
NoPass == [pc |-> "idle", queue |-> <<>>, pass_no |-> 0, pos |-> 0]

PipeIdle ==
    /\ publications = <<>>
    /\ scraping_sources = {}
    /\ gate_pass = NoPass
    /\ gate_log = <<>>
    /\ publish_pass = NoPass
    /\ ready_since = <<>>

\* the value of the scraper-service variables in a specification that does
\* not run the service
\* get_notifier() returned None: Telegram notifications are not configured
NoNotifier == [enabled |-> FALSE]

\* CONFIG_FILE does not exist: the controller has not been constructed
NoConfigFile == <<>>

CtlIdle ==
    /\ controller = [status |-> "starting"]
    /\ sched = [pc |-> "not started"]
    /\ logs = [log_buffer |-> <<>>, log_subscribers |-> <<>>]
    /\ notifier = NoNotifier
    /\ config_file = NoConfigFile

QuerySeqs(n, keys) ==
    UNION {[1..m -> [k : keys, v : ParamValues]] : m \in 0..n}

UrlInputs ==
    [scheme : Schemes, host : {"example.com"}, port : {"", "443"},
     path : {[segs |-> s, slashes |-> 0] : s \in PathSegs},
     query : QuerySeqs(MaxParams, PlainKeys), fragment : {""}]

InitUrl ==
    /\ url_u \in UrlInputs
    /\ url_v = url_u
    /\ StoreIdle
    /\ CuratorIdle
    /\ CtlIdle
    /\ PipeIdle

TrackingCount(q) == Cardinality({i \in 1..Len(q) : q[i].k \in tracking_params})

\* the copy swaps two neighbouring query parameters
ReorderQuery ==
    /\ UNCHANGED nonUrlVars
    /\ \E i \in 1..(Len(url_v.query) - 1) :
         url_v' = [url_v EXCEPT !.query =
                      [@ EXCEPT ![i] = url_v.query[i + 1],
                                ![i + 1] = url_v.query[i]]]
    /\ UNCHANGED url_u

\* the copy spells its host with other letter case
ChangeHostCase ==
    /\ UNCHANGED nonUrlVars
    /\ \E h \in HostSpellings \ {url_v.host} :
         url_v' = [url_v EXCEPT !.host = h]
    /\ UNCHANGED url_u

\* the copy gains a tracking parameter, anywhere in the query
AddTrackingParam ==
    /\ UNCHANGED nonUrlVars
    /\ TrackingCount(url_v.query) < MaxTracking
    /\ \E k \in tracking_params, i \in 1..(Len(url_v.query) + 1) :
         url_v' = [url_v EXCEPT !.query = InsertAt(@, i, [k |-> k, v |-> "1"])]
    /\ UNCHANGED url_u

\* the copy loses a tracking parameter
RemoveTrackingParam ==
    /\ UNCHANGED nonUrlVars
    /\ \E i \in 1..Len(url_v.query) :
         /\ url_v.query[i].k \in tracking_params
         /\ url_v' = [url_v EXCEPT !.query = RemoveAt(@, i)]
    /\ UNCHANGED url_u

\* the copy gains or loses the slash that ends its path
ToggleTrailingSlash ==
    /\ UNCHANGED nonUrlVars
    /\ url_v' = [url_v EXCEPT !.path.slashes = 1 - @]
    /\ UNCHANGED url_u

NextUrl ==
    \/ ReorderQuery
    \/ ChangeHostCase
    \/ AddTrackingParam
    \/ RemoveTrackingParam
    \/ ToggleTrailingSlash

SpecUrl == InitUrl /\ [][NextUrl]_vars

\* C2: a URL and a copy that differs only in query-parameter order, host
\* letter case, a tracking parameter or a trailing slash have the same
\* normalized form and the same URL fingerprint, repeated keys included.
C2_SameNormalForm ==
    /\ normalize_url(url_u) = normalize_url(url_v)
    /\ generate_url_hash(url_u) = generate_url_hash(url_v)

\* ========================================================================
\* 2. ITEM STORE: insert paths
\*    (backend/app/api/routes/scraping_items.py, backend/app/db/models.py,
\*     scraping/lagaceta/scrape_lagaceta_db.py)
\* ========================================================================

\* Bounds of the insert model.
MaxTime == 1            \* the clock runs from 0 to MaxTime
MaxIds == 2             \* ids handed out in one run
MaxInflight == 1        \* create requests between SELECT and INSERT

\* A text whose length matters is [body, pad]: body characters between pad
\* characters of surrounding whitespace; len() is their sum, strip() drops
\* the padding.  A text that is compared by content carries it in txt.  A
\* headline also carries its words and its set of character trigrams.
\* None and the empty string are the text of length 0.
StrLen(t) == t.body + t.pad
StripLen(t) == t.body

NullTitle == [words |-> <<>>, body |-> 0, pad |-> 0, grams |-> {}]
NullText == [body |-> 0, pad |-> 0]

\* ai_metadata: the lengths of the three renderings (0 = missing) and the
\* JSON value of is_valid: "true", "false", "null", "text" (a string) or
\* "absent" (no such key); a NULL column reads as no key at all
NullMetadata ==
    [sin_vueltas |-> 0, lo_central |-> 0, en_profundidad |-> 0,
     is_valid |-> "absent"]

\* A status message is [kind, title, shown, pct]: which message it is and,
\* for the messages that quote a headline and a score, the headline, the
\* number of its characters that are quoted and the score in per cent.
Msg(kind) == [kind |-> kind, title |-> NullTitle, shown |-> 0, pct |-> 0]

\* normalize_content: lower-case, collapse whitespace, trim
normalize_content(content) ==
    [txt |-> lower(content.txt), body |-> content.body, pad |-> 0]

generate_content_hash(content) == hash_text(normalize_content(content))

\* the column defaults of class ScrapingItem for a row built from a request
NewRow(id, data, scraped_at, status, message) ==
    [id |-> id,
     source_media |-> data.source_media,
     url_hash |-> data.url_hash,
     content_hash |-> data.content_hash,
     title |-> data.title,
     content |-> data.content,
     scraped_at |-> scraped_at,
     status |-> status,
     status_message |-> message,
     status_updated_at |-> now,
     retry_count |-> 0,
     ai_title |-> NullTitle,
     ai_summary |-> NullText,
     ai_category |-> "",
     ai_metadata |-> NullMetadata,
     ai_processed_at |-> -1,
     publication_id |-> 0]

Ids == DOMAIN scraping_items

RowsWithUrlHash(h) == {i \in Ids : scraping_items[i].url_hash = h}

\* INSERT of one row under the unique index on url_hash
InsertRow(row) == (row.id :> row) @@ scraping_items

\* three harvested URLs; the first two have the same normalized form
InsertUrls ==
    {[scheme |-> "https", host |-> "example.com", port |-> "",
      path |-> [segs |-> <<"nota">>, slashes |-> 0],
      query |-> <<[k |-> "a", v |-> "1"]>>, fragment |-> ""],
     [scheme |-> "https", host |-> "Example.com", port |-> "443",
      path |-> [segs |-> <<"nota">>, slashes |-> 1],
      query |-> <<[k |-> "utm_source", v |-> "1"], [k |-> "a", v |-> "1"]>>,
      fragment |-> "top"],
     [scheme |-> "https", host |-> "example.com", port |-> "",
      path |-> [segs |-> <<"nota">>, slashes |-> 0],
      query |-> <<[k |-> "a", v |-> "2"]>>, fragment |-> ""]}

\* two versions of an article: its text and its headline
InsertPayloads ==
    {[content |-> [txt |-> "texto uno", body |-> 120, pad |-> 0],
      title |-> [words |-> <<"senado", "aprueba">>, body |-> 14, pad |-> 0,
                 grams |-> {"sen", "ena", "apr"}]],
     [content |-> [txt |-> "texto dos", body |-> 120, pad |-> 0],
      title |-> [words |-> <<"senado", "rechaza">>, body |-> 14, pad |-> 0,
                 grams |-> {"sen", "ena", "rec"}]]}

\* the bodies of ScrapingItemCreate that the clients send
CreateRequests ==
    {[source_media |-> "lagaceta",
      url_hash |-> generate_url_hash(u),
      content |-> p.content,
      content_hash |-> generate_content_hash(p.content),
      title |-> p.title] : u \in InsertUrls, p \in InsertPayloads}

InitInsert ==
    /\ url_u = <<>>
    /\ url_v = <<>>
    /\ now = 0
    /\ scraping_items = <<>>
    /\ next_id = 0
    /\ inflight = {}
    /\ last_op = NoOp
    /\ CuratorIdle
    /\ CtlIdle
    /\ PipeIdle

\* the clock advances
Tick ==
    /\ now < MaxTime
    /\ now' = now + 1
    /\ UNCHANGED <<nonStoreVars, scraping_items, next_id, inflight, last_op>>

\* create_scraping_item, first half: the SELECT by url_hash.  An existing row
\* is returned; otherwise the handler goes on to the INSERT.
create_scraping_item_select ==
    \E item \in CreateRequests :
        IF RowsWithUrlHash(item.url_hash) # {}
        THEN /\ last_op' = [name |-> "create", req |-> item]
             /\ UNCHANGED <<nonStoreVars, now, scraping_items, next_id, inflight>>
        ELSE /\ Cardinality(inflight) < MaxInflight
             /\ inflight' = inflight \cup {item}
             /\ last_op' = [name |-> "create_select"]
             /\ UNCHANGED <<nonStoreVars, now, scraping_items, next_id>>

\* create_scraping_item, second half: db.add + commit.  The unique index on
\* url_hash rejects the row when another request inserted the hash meanwhile.
create_scraping_item_insert ==
    \E item \in inflight :
        /\ inflight' = inflight \ {item}
        /\ last_op' = [name |-> "create", req |-> item]
        /\ IF RowsWithUrlHash(item.url_hash) # {}
           THEN UNCHANGED <<scraping_items, next_id>>
           ELSE /\ next_id < MaxIds
                /\ next_id' = next_id + 1
                /\ scraping_items' =
                       InsertRow(NewRow(next_id + 1, item, now, "scraped",
                                        Msg("none")))
        /\ UNCHANGED <<nonStoreVars, now>>

\* a SET list that also refreshes the capture timestamp
upsert_conflict_row_refreshing(row, item) ==
    [row EXCEPT !.content = item.content,
                !.content_hash = item.content_hash,
                !.title = item.title,
                !.scraped_at = now]

\* the SET list of ON CONFLICT (url_hash) DO UPDATE
upsert_conflict_row(row, item) ==
    [row EXCEPT !.content = item.content,
                !.content_hash = item.content_hash,
                !.title = item.title]

\* upsert_scraping_item: INSERT ... ON CONFLICT (url_hash) DO UPDATE
upsert_scraping_item ==
    \E item \in CreateRequests :
        /\ last_op' = [name |-> "upsert", req |-> item]
        /\ IF RowsWithUrlHash(item.url_hash) # {}
           THEN /\ scraping_items' =
                       [i \in Ids |->
                           IF scraping_items[i].url_hash = item.url_hash
                           THEN upsert_conflict_row(scraping_items[i], item)
                           ELSE scraping_items[i]]
                /\ UNCHANGED next_id
           ELSE /\ next_id < MaxIds
                /\ next_id' = next_id + 1
                /\ scraping_items' =
                       InsertRow(NewRow(next_id + 1, item, now, "scraped",
                                        Msg("none")))
        /\ UNCHANGED <<nonStoreVars, now, inflight>>

\* the row ON CONFLICT (url_hash) DO NOTHING leaves in place
scraper_conflict_row(row, data) == row

\* insert_scraping_item of a Source Scraper:
\* INSERT ... ON CONFLICT (url_hash) DO NOTHING
insert_scraping_item ==
    \E data \in CreateRequests :
        /\ last_op' = [name |-> "scraper_insert", req |-> data]
        /\ IF RowsWithUrlHash(data.url_hash) # {}
           THEN /\ scraping_items' =
                       [i \in Ids |->
                           IF scraping_items[i].url_hash = data.url_hash
                           THEN scraper_conflict_row(scraping_items[i], data)
                           ELSE scraping_items[i]]
                /\ UNCHANGED next_id
           ELSE /\ next_id < MaxIds
                /\ next_id' = next_id + 1
                /\ scraping_items' =
                       InsertRow(NewRow(next_id + 1, data, now, "scraped",
                                        Msg("scraped")))
        /\ UNCHANGED <<nonStoreVars, now, inflight>>

\* update_scraping_item (PATCH): update_data holds the fields the body
\* sets.  A status of ai_completed stamps ai_processed_at if it is unset, a
\* status of error counts a retry; then every field is assigned.
patched_row(item, update_data) ==
    LET stamped ==
            IF "status" \notin DOMAIN update_data THEN update_data
            ELSE IF update_data.status = "ai_completed"
                    /\ item.ai_processed_at = -1
                 THEN ("ai_processed_at" :> now) @@ update_data
            ELSE IF update_data.status = "error"
                 THEN ("retry_count" :> item.retry_count + 1) @@ update_data
            ELSE update_data
    IN  [f \in DOMAIN item |->
            IF f \in DOMAIN stamped THEN stamped[f] ELSE item[f]]

\* history: the items that are ready_to_publish in new_items and were not
\* before get the present time
ReadySince(new_items) ==
    LET entering ==
            {i \in DOMAIN new_items :
                /\ new_items[i].status = "ready_to_publish"
                /\ i \in DOMAIN scraping_items
                      => scraping_items[i].status # "ready_to_publish"}
    IN  [i \in DOMAIN ready_since \cup entering |->
            IF i \in entering THEN now ELSE ready_since[i]]

update_scraping_item(item_id, update_data) ==
    /\ item_id \in Ids
    /\ scraping_items' =
           [scraping_items EXCEPT
               ![item_id] = patched_row(scraping_items[item_id], update_data)]
    /\ ready_since' = ReadySince(scraping_items')
    /\ last_op' = [name |-> "patch"]
    /\ UNCHANGED <<urlVars, curVars, ctlVars, now, next_id, inflight, publications,
                   scraping_sources, gate_pass, gate_log, publish_pass>>

\* PATCH with only a status in the body
PatchStatuses == {"ready_for_ai"}

update_scraping_item_status ==
    \E item_id \in Ids, new_status \in PatchStatuses :
        /\ scraping_items[item_id].status # new_status
        /\ update_scraping_item(item_id, [status |-> new_status])

NextInsert ==
    \/ Tick
    \/ create_scraping_item_select
    \/ create_scraping_item_insert
    \/ upsert_scraping_item
    \/ insert_scraping_item
    \/ update_scraping_item_status

SpecInsert == InitInsert /\ [][NextInsert]_vars

InsertOps == {"create", "upsert", "scraper_insert"}

\* the unique index: no two rows share a url_hash
UniqueUrlHash ==
    \A i, j \in Ids :
        i # j => scraping_items[i].url_hash # scraping_items[j].url_hash

\* what one insert whose url_hash is already stored does to the table
InsertOnExistingHash ==
    (/\ last_op'.name \in InsertOps
     /\ \E i \in Ids : scraping_items[i].url_hash = last_op'.req.url_hash)
    => /\ DOMAIN scraping_items' = Ids
       /\ \A i \in Ids :
            LET old == scraping_items[i]
                new == scraping_items'[i]
            IN  /\ new.id = old.id
                /\ new.scraped_at = old.scraped_at
                /\ new.status = old.status
                /\ new.url_hash = old.url_hash
                /\ IF last_op'.name = "upsert"
                      /\ old.url_hash = last_op'.req.url_hash
                   THEN /\ new.content = last_op'.req.content
                        /\ new.content_hash = last_op'.req.content_hash
                        /\ new.title = last_op'.req.title
                   ELSE new = old

\* C1: after any sequence of inserts through the create endpoint, the upsert
\* endpoint and a scraper's insert no two rows share a url_hash; an insert
\* whose url_hash is already stored adds no row, and through upsert it
\* replaces the row's content fields and keeps its scraped_at, id and status.
C1_InsertDedup == []UniqueUrlHash /\ [][InsertOnExistingHash]_vars

\* C1 witness: an upsert met a stored hash on a row that was captured
\* earlier and has left status scraped, and replaced its content.
C1_Witness ==
    /\ last_op.name = "upsert"
    /\ \E i \in Ids :
         /\ scraping_items[i].url_hash = last_op.req.url_hash
         /\ scraping_items[i].content = last_op.req.content
         /\ scraping_items[i].scraped_at < now
         /\ scraping_items[i].status = "ready_for_ai"
    /\ Cardinality(Ids) = 2

\* ========================================================================
\* 3. DIVERSITY CURATOR: select_curated_items  (scraping/news_curator.py)
\* ========================================================================

\* The items of the curator are the dicts of get_ready_to_publish_items:
\*   [id, title, category, source_media, created_at]
\* with title the raw headline as its sequence of words and created_at the
\* row's scraped_at.

stop_words ==
    {"el", "la", "los", "las", "un", "una", "de", "del", "en", "con",
     "por", "para", "que", "y", "a", "su", "se", "es", "al"}

\* re.sub(r'[^\w\s]', '', title.lower()), word by word, on the spellings
\* that occur in the model
lower_no_punct(w) ==
    CASE w = "Senado" -> "senado"
      [] w = "ley," -> "ley"
      [] w = "2026." -> "2026"
      [] OTHER -> w

\* len(w) of a normalized word: the model's one- and two-letter words are
\* listed, every other word has three letters or more
WordLen(w) ==
    IF w \in {"y", "a"} THEN 1
    ELSE IF w \in {"el", "la", "un", "de", "en", "su", "se", "es", "al",
                   "ya", "va"} THEN 2
    ELSE 3

normalize_title(title) ==
    SelectSeq([i \in 1..Len(title) |-> lower_no_punct(title[i])],
              LAMBDA w : w \notin stop_words /\ WordLen(w) > 2)

\* a ratio is the pair <<numerator, denominator>>
SimGE(r, t) == r[1] * t[2] >= t[1] * r[2]
SimGT(r, t) == r[1] * t[2] > t[1] * r[2]

calculate_similarity(title1, title2) ==
    LET words1 == Range(normalize_title(title1))
        words2 == Range(normalize_title(title2))
    IN  IF words1 = {} \/ words2 = {}
        THEN <<0, 1>>
        ELSE <<Cardinality(words1 \cap words2), Cardinality(words1 \cup words2)>>

\* the default of find_duplicates' threshold parameter, 0.6
DUPLICATE_THRESHOLD == <<6, 10>>

\* find_duplicates, inner loop over items[i+1:]
RECURSIVE fd_inner(_, _, _, _, _)
fd_inner(items, threshold, i, j, st) ==
    IF j > Len(items) THEN st
    ELSE IF items[j].id \in st.processed
         THEN fd_inner(items, threshold, i, j + 1, st)
    ELSE IF SimGE(calculate_similarity(items[i].title, items[j].title),
                  threshold)
         THEN fd_inner(items, threshold, i, j + 1,
                       [group |-> Append(st.group, items[j].id),
                        processed |-> st.processed \cup {items[j].id}])
    ELSE fd_inner(items, threshold, i, j + 1, st)

\* find_duplicates, outer loop
RECURSIVE fd_outer(_, _, _, _)
fd_outer(items, threshold, i, st) ==
    IF i > Len(items) THEN st.duplicates
    ELSE IF items[i].id \in st.processed
         THEN fd_outer(items, threshold, i + 1, st)
    ELSE LET r == fd_inner(items, threshold, i, i + 1,
                           [group |-> <<items[i].id>>,
                            processed |-> st.processed \cup {items[i].id}])
         IN  fd_outer(items, threshold, i + 1,
                      [duplicates |-> IF Len(r.group) > 1
                                      THEN Append(st.duplicates, r.group)
                                      ELSE st.duplicates,
                       processed |-> r.processed])

\* the groups of similar items, in dict order; the first id of a group is
\* its key
find_duplicates(items, threshold) ==
    fd_outer(items, threshold, 1, [duplicates |-> <<>>, processed |-> {}])

\* variant: the first element with the least key
MinByCreatedAt(s) ==
    s[CHOOSE m \in 1..Len(s) :
          /\ \A k \in 1..Len(s) : s[k].created_at >= s[m].created_at
          /\ \A k \in 1..(m - 1) : s[k].created_at > s[m].created_at]

\* max(seq, key=created_at): the first element with the greatest key
MaxByCreatedAt(s) ==
    s[CHOOSE m \in 1..Len(s) :
          /\ \A k \in 1..Len(s) : s[k].created_at <= s[m].created_at
          /\ \A k \in 1..(m - 1) : s[k].created_at < s[m].created_at]

\* items_by_id[id]: the last item of the list with that id
ItemById(items, id) ==
    items[CHOOSE m \in 1..Len(items) :
              /\ items[m].id = id
              /\ \A k \in (m + 1)..Len(items) : items[k].id # id]

\* the member of a duplicate group that select_best_from_duplicates keeps
best_of_group(items, group_ids) ==
    MaxByCreatedAt([k \in 1..Len(group_ids) |-> ItemById(items, group_ids[k])])

select_best_from_duplicates(items, duplicate_groups) ==
    LET removed_ids ==
            UNION {{id \in Range(duplicate_groups[g]) :
                       id # best_of_group(items, duplicate_groups[g]).id}
                   : g \in 1..Len(duplicate_groups)}
    IN  SelectSeq(items, LAMBDA item : item.id \notin removed_ids)

\* item.get('category') or 'general'
category_of(item) == IF item.category = "" THEN "general" ELSE item.category

\* get_source_key; source_media is a non-empty column, so the source_id
\* fallback is never taken
get_source_key(item) ==
    IF item.source_media = "" THEN "unknown" ELSE item.source_media

\* list.sort(key=created_at, reverse=True): stable, newest first
RECURSIVE sort_newest_first(_)
sort_newest_first(s) ==
    IF s = <<>> THEN <<>>
    ELSE LET m == CHOOSE m \in 1..Len(s) :
                     /\ \A k \in 1..Len(s) : s[k].created_at <= s[m].created_at
                     /\ \A k \in 1..(m - 1) : s[k].created_at < s[m].created_at
         IN  <<s[m]>> \o sort_newest_first(RemoveAt(s, m))

\* the keys of by_category, in the order of first appearance
RECURSIVE category_keys(_, _)
category_keys(items, seen) ==
    IF items = <<>> THEN <<>>
    ELSE IF category_of(Head(items)) \in seen
         THEN category_keys(Tail(items), seen)
         ELSE <<category_of(Head(items))>>
              \o category_keys(Tail(items), seen \cup {category_of(Head(items))})

\* by_category after the first pass sorted each list in place
by_category_sorted(items) ==
    LET keys == category_keys(items, {})
    IN  [k \in 1..Len(keys) |->
            sort_newest_first(
                SelectSeq(items, LAMBDA item : category_of(item) = keys[k]))]

\* variant: a category counter that is never incremented
CountCategory_stuck(selected, c) == 0

\* category_counts[c] once `selected` has been selected
CountCategory(selected, c) ==
    Cardinality({k \in 1..Len(selected) : category_of(selected[k]) = c})

\* variant: a source counter that is never incremented
CountSource_stuck(selected, src) == 0

\* source_counts[src] once `selected` has been selected
CountSource(selected, src) ==
    Cardinality({k \in 1..Len(selected) : get_source_key(selected[k]) = src})

\* variant: a first pass that stops after the first category
first_pass_once(by_category) == <<by_category[1][1]>>

\* first pass: the newest item of every category
first_pass(by_category) == [k \in 1..Len(by_category) |-> by_category[k][1]]

\* all_remaining: the items of by_category that the first pass left,
\* newest first
all_remaining_of(by_category, selected) ==
    sort_newest_first(
        SelectSeq(Flatten(by_category),
                  LAMBDA item : item \notin Range(selected)))

\* second pass: fill up to target_count under the two caps.  The counters
\* category_counts and source_counts count the items selected so far.
RECURSIVE second_pass(_, _, _, _, _)
second_pass(remaining, selected, target_count, max_per_category, max_per_source) ==
    IF remaining = <<>> \/ Len(selected) >= target_count THEN selected
    ELSE LET item == Head(remaining) IN
         IF CountCategory(selected, category_of(item)) >= max_per_category
         THEN second_pass(Tail(remaining), selected, target_count,
                          max_per_category, max_per_source)
         ELSE IF CountSource(selected, get_source_key(item)) >= max_per_source
         THEN second_pass(Tail(remaining), selected, target_count,
                          max_per_category, max_per_source)
         ELSE second_pass(Tail(remaining), Append(selected, item),
                          target_count, max_per_category, max_per_source)

\* relaxation: fill from all_remaining without caps
RECURSIVE relax_pass(_, _, _)
relax_pass(remaining, selected, target_count) ==
    IF remaining = <<>> \/ Len(selected) >= target_count THEN selected
    ELSE IF Head(remaining) \notin Range(selected)
         THEN relax_pass(Tail(remaining), Append(selected, Head(remaining)),
                         target_count)
         ELSE relax_pass(Tail(remaining), selected, target_count)

\* select_curated_items with its intermediate lists:
\*   groups     the duplicate groups of step 1
\*   candidates the items step 1 keeps
\*   seeds      selected after the first pass
\*   filled     selected after the second pass
\*   selected   the returned list
curate_stages(items, target_count, max_per_category, max_per_source) ==
    IF items = <<>>
    THEN [groups |-> <<>>, candidates |-> <<>>, seeds |-> <<>>,
          filled |-> <<>>, selected |-> <<>>]
    ELSE
    LET duplicate_groups == find_duplicates(items, DUPLICATE_THRESHOLD)
        candidates == select_best_from_duplicates(items, duplicate_groups)
        by_category == by_category_sorted(candidates)
        seeds == first_pass(by_category)
        all_remaining == all_remaining_of(by_category, seeds)
        filled == second_pass(all_remaining, seeds, target_count,
                              max_per_category, max_per_source)
        selected == IF Len(filled) < target_count
                    THEN relax_pass(all_remaining, filled, target_count)
                    ELSE filled
    IN  [groups |-> duplicate_groups, candidates |-> candidates,
         seeds |-> seeds, filled |-> filled, selected |-> selected]

select_curated_items(items, target_count, max_per_category, max_per_source) ==
    curate_stages(items, target_count, max_per_category,
                  max_per_source).selected

\* ---- the inputs of select_curated_items --------------------------------

\* Bounds of the curator inputs.
MaxN == 20              \* items of a generated input list
MaxCats == 5            \* categories of a generated input list
MaxSrc == 3             \* sources of a generated input list
MaxSmall == 2           \* items of an enumerated input list

Min(a, b) == IF a < b THEN a ELSE b
Max(a, b) == IF a > b THEN a ELSE b

\* category and source names (the accents of the names are dropped)
CatSeq ==
    <<"Politica", "Economia", "Deportes", "Sociedad", "Cultura", "Salud",
      "Ciencia", "Educacion">>
SrcSeq == <<"lagaceta", "infobae", "clarin", "pagina12", "lanacion", "ambito">>

W(k) == "w" \o ToString(k)

\* Item i of the list generated from the layout g:
\*   g.n items over g.ncat categories and g.nsrc sources, laid out so that
\*   the list is in round-robin or in block order of category; sources go
\*   round-robin, by category, or "seedsame" (the first item of every
\*   category from one source, the rest round-robin over the others);
\*   headlines are pairwise unrelated, equal in pairs, a chain in which
\*   neighbours share three words of five, triples A~B, B~C, A/~C, or all
\*   the same; scrape times fall, rise or are all equal along the list.
GenItem(g, i) ==
    LET block == (g.n + g.ncat - 1) \div g.ncat
        catIx == IF g.catMode = "roundrobin"
                 THEN ((i - 1) % g.ncat) + 1
                 ELSE Min(g.ncat, ((i - 1) \div block) + 1)
        first == IF g.catMode = "roundrobin"
                 THEN i <= g.ncat
                 ELSE (i - 1) % block = 0
        src == CASE g.srcMode = "roundrobin" -> SrcSeq[((i - 1) % g.nsrc) + 1]
                 [] g.srcMode = "bycat" -> SrcSeq[((catIx - 1) % g.nsrc) + 1]
                 [] OTHER -> IF first THEN SrcSeq[1]
                             ELSE SrcSeq[2 + ((i - 1) % g.nsrc)]
        title == CASE g.titleMode = "distinct" ->
                        <<W(10 * i), W(10 * i + 1), W(10 * i + 2)>>
                   [] g.titleMode = "pairs" ->
                        <<W(10 * ((i + 1) \div 2)), "de",
                          W(10 * ((i + 1) \div 2) + 1)>>
                   [] g.titleMode = "chain" ->
                        <<W(i), W(i + 1), W(i + 2), W(i + 3)>>
                   [] g.titleMode = "triples" ->
                        (CASE i % 3 = 1 -> <<W(1), W(2), W(3), W(4)>>
                           [] i % 3 = 2 -> <<W(1), W(2), W(3)>>
                           [] OTHER -> <<W(1), W(2), W(3), W(5), W(6)>>)
                   [] OTHER -> <<W(1), W(2), W(3)>>
        created_at == CASE g.timeMode = "desc" -> g.n - i
                        [] g.timeMode = "asc" -> i
                        [] OTHER -> 0
    IN  [id |-> i, title |-> title, category |-> CatSeq[catIx],
         source_media |-> src, created_at |-> created_at]

\* the source layouts: one source, or MaxSrc sources in each of the modes
SrcLayouts ==
    {[nsrc |-> 1, srcMode |-> "roundrobin"]}
    \cup [nsrc : {MaxSrc}, srcMode : {"roundrobin", "bycat", "seedsame"}]

Layouts ==
    {[n |-> n, ncat |-> ncat, catMode |-> catMode, nsrc |-> sl.nsrc,
      srcMode |-> sl.srcMode, titleMode |-> titleMode, timeMode |-> timeMode]
     : n \in 1..MaxN, ncat \in 1..MaxCats,
       catMode \in {"roundrobin", "blocks"}, sl \in SrcLayouts,
       titleMode \in {"distinct", "pairs", "chain", "triples", "same"},
       timeMode \in {"desc", "asc", "ties"}}

GeneratedLists == {[i \in 1..g.n |-> GenItem(g, i)] : g \in Layouts}

\* the enumerated lists: every list of at most MaxSmall items over two
\* categories (one of them missing, from the other source), two scrape times
\* and three raw headlines, two of which share three of their five
\* significant words
SmallTitles ==
    {<<"Senado", "aprueba", "ley,", "de", "presupuesto">>,
     <<"senado", "rechaza", "la", "ley", "presupuesto">>,
     <<"feria", "del", "libro">>}

SmallItems ==
    {[title |-> t, category |-> c,
      source_media |-> IF c = "" THEN "infobae" ELSE "lagaceta",
      created_at |-> a]
     : t \in SmallTitles, c \in {"Politica", ""}, a \in 0..1}

SmallLists ==
    UNION {{[i \in 1..m |-> [id |-> i, title |-> f[i].title,
                             category |-> f[i].category,
                             source_media |-> f[i].source_media,
                             created_at |-> f[i].created_at]]
            : f \in [1..m -> SmallItems]} : m \in 0..MaxSmall}

\* the defaults of select_curated_items, and a tight setting for the
\* enumerated lists
CuratorSettings ==
    {[target_count |-> 12, max_per_category |-> 3, max_per_source |-> 3],
     [target_count |-> 2, max_per_category |-> 1, max_per_source |-> 1]}

InitCurator ==
    /\ url_u = <<>>
    /\ url_v = <<>>
    /\ StoreIdle
    /\ PipeIdle
    /\ CtlIdle
    /\ \/ \E l \in GeneratedLists :
            cur_in = [items |-> l, target_count |-> 12,
                      max_per_category |-> 3, max_per_source |-> 3]
       \/ \E l \in SmallLists, c \in CuratorSettings :
            cur_in = [items |-> l, target_count |-> c.target_count,
                      max_per_category |-> c.max_per_category,
                      max_per_source |-> c.max_per_source]
    /\ cur_out = [done |-> FALSE]

\* the curator calls select_curated_items on the input
curate_select ==
    /\ ~ cur_out.done
    /\ cur_out' = [done |-> TRUE] @@
                  curate_stages(cur_in.items, cur_in.target_count,
                                cur_in.max_per_category, cur_in.max_per_source)
    /\ UNCHANGED <<nonCurVars, cur_in>>

NextCurator == curate_select

SpecCurator == InitCurator /\ [][NextCurator]_vars

\* ---- vocabulary of the curator claims ----------------------------------
CategoriesOf(list) == {category_of(list[i]) : i \in 1..Len(list)}
SourcesOf(list) == {get_source_key(list[i]) : i \in 1..Len(list)}
IdsOf(list) == {list[i].id : i \in 1..Len(list)}
InCategory(list, c) == {i \in 1..Len(list) : category_of(list[i]) = c}
FromSource(list, src) == {i \in 1..Len(list) : get_source_key(list[i]) = src}
CreatedAtOf(id) ==
    cur_in.items[CHOOSE i \in 1..Len(cur_in.items) : cur_in.items[i].id = id]
        .created_at

InputCategories == CategoriesOf(cur_in.items)
OutputCategories == CategoriesOf(cur_out.selected)
CandidateCategories == CategoriesOf(cur_out.candidates)

\* the relaxation step had to run: the caps left the list short of the target
RelaxationRan == Len(cur_out.filled) < cur_in.target_count

\* the case of C6 and C7: a curated input of at least 4 categories, target 12
FourCategoriesTarget12 ==
    /\ cur_out.done
    /\ cur_in.target_count = 12
    /\ Cardinality(InputCategories) >= 4

\* C6 as stated: with at least 4 categories in the input and target_count =
\* 12 the output has an item of every category of the input.
C6_EveryInputCategory ==
    FourCategoriesTarget12 => InputCategories \subseteq OutputCategories

\* C6: with at least 4 categories in the input and target_count = 12 the
\* output has an item of every category that still has an item after the
\* removal of near-duplicates; a category whose every item was removed as a
\* near-duplicate of an item of another category is absent.
C6_EverySurvivingCategory ==
    FourCategoriesTarget12 =>
        /\ CandidateCategories \subseteq OutputCategories
        /\ (cur_out.groups = <<>> => InputCategories \subseteq OutputCategories)

C6_Witness ==
    /\ FourCategoriesTarget12
    /\ InputCategories \ OutputCategories # {}
    /\ Cardinality(OutputCategories) >= 2
    /\ OutputCategories = CandidateCategories

\* C7 as stated: for such an input the output has at most max_per_category
\* items of a category and at most max_per_source items of a source, unless
\* the relaxation step had to run.
C7_CapsUnlessRelaxed ==
    (FourCategoriesTarget12 /\ ~ RelaxationRan) =>
        /\ \A c \in OutputCategories :
             Cardinality(InCategory(cur_out.selected, c))
                 <= cur_in.max_per_category
        /\ \A src \in SourcesOf(cur_out.selected) :
             Cardinality(FromSource(cur_out.selected, src))
                 <= cur_in.max_per_source

\* C7: for such an input, unless the relaxation step had to run, the output
\* has at most max_per_category items of a category, and at most
\* max_per_source items of a source or, if that is more, the items of that
\* source that the first pass picked as the newest of their categories: the
\* first pass does not look at the source cap.
C7_CapsAfterSeeds ==
    (FourCategoriesTarget12 /\ ~ RelaxationRan) =>
        /\ \A c \in OutputCategories :
             Cardinality(InCategory(cur_out.selected, c))
                 <= cur_in.max_per_category
        /\ \A src \in SourcesOf(cur_out.selected) :
             Cardinality(FromSource(cur_out.selected, src))
                 <= Max(cur_in.max_per_source,
                        Cardinality(FromSource(cur_out.seeds, src)))

C7_Witness ==
    /\ FourCategoriesTarget12
    /\ ~ RelaxationRan
    /\ Len(cur_out.selected) = 12
    /\ \E src \in SourcesOf(cur_out.selected) :
         /\ Cardinality(FromSource(cur_out.selected, src))
                > cur_in.max_per_source
         /\ Cardinality(FromSource(cur_out.selected, src))
                = Cardinality(FromSource(cur_out.seeds, src))
    /\ \E src \in SourcesOf(cur_out.selected) :
         /\ Cardinality(FromSource(cur_out.selected, src))
                = cur_in.max_per_source
         /\ Cardinality(FromSource(cur_out.candidates, src))
                > cur_in.max_per_source

\* the case of C8: 20 items over 5 categories, target 12, caps 3 and 3
TwentyItemsFiveCategories ==
    /\ cur_out.done
    /\ Len(cur_in.items) = 20
    /\ Cardinality(InputCategories) = 5
    /\ cur_in.target_count = 12
    /\ cur_in.max_per_category = 3
    /\ cur_in.max_per_source = 3

\* C8 as stated: 20 items over 5 categories with target 12 and caps 3 and 3
\* give exactly 12 items, one or more of each of the 5 categories, and no
\* category with more than 3.
C8_ExactlyTwelve ==
    TwentyItemsFiveCategories =>
        /\ Len(cur_out.selected) = 12
        /\ InputCategories \subseteq OutputCategories
        /\ \A c \in OutputCategories :
             Cardinality(InCategory(cur_out.selected, c)) <= 3

\* C8: 20 items over 5 categories with target 12 and caps 3 and 3 give 12
\* items, or every item left by the removal of near-duplicates if those are
\* fewer; one or more of each category that has an item left; and no
\* category with more than 3 unless the relaxation step had to run.  With no
\* near-duplicates in the input that is exactly 12 items and all 5
\* categories.
C8_TwelveOfTheSurvivors ==
    TwentyItemsFiveCategories =>
        /\ Len(cur_out.selected) = Min(12, Len(cur_out.candidates))
        /\ CandidateCategories \subseteq OutputCategories
        /\ (~ RelaxationRan =>
              \A c \in OutputCategories :
                 Cardinality(InCategory(cur_out.selected, c)) <= 3)
        /\ (cur_out.groups = <<>> =>
              /\ Len(cur_out.selected) = 12
              /\ InputCategories \subseteq OutputCategories)

C8_Witness ==
    /\ TwentyItemsFiveCategories
    /\ cur_out.groups = <<>>
    /\ RelaxationRan
    /\ Len(cur_out.selected) = 12
    /\ \E c \in OutputCategories :
         Cardinality(InCategory(cur_out.selected, c)) > 3

\* C9: of every group of near-duplicates exactly one member is kept as a
\* candidate, no member is scraped later than it, and no other member of the
\* group is in the output, relaxation step included.
C9_OneSurvivorPerGroup ==
    cur_out.done =>
        \A g \in 1..Len(cur_out.groups) :
            LET members == Range(cur_out.groups[g])
                kept == members \cap IdsOf(cur_out.candidates)
            IN  /\ Cardinality(kept) = 1
                /\ \A b \in kept, m \in members :
                     CreatedAtOf(m) <= CreatedAtOf(b)
                /\ members \cap IdsOf(cur_out.selected) \subseteq kept

C9_Witness ==
    /\ cur_out.done
    /\ RelaxationRan
    /\ \E g \in 1..Len(cur_out.groups) :
         LET members == Range(cur_out.groups[g])
             kept == members \cap IdsOf(cur_out.selected)
         IN  /\ Cardinality(members) >= 3
             /\ Cardinality(kept) = 1
             /\ cur_out.groups[g][1] \notin kept
             /\ \E m \in members, b \in kept : CreatedAtOf(m) < CreatedAtOf(b)

\* ========================================================================
\* 4. ENRICHMENT, QUALITY GATE, PUBLISHING
\*    (scraping/lagaceta/process_ai.py, scraping/auto_prepare.py,
\*     scraping/auto_publish.py, backend/app/api/routes/scraping_items.py,
\*     backend/app/api/routes/scraping_sources.py)
\* ========================================================================

\* Bounds of the pipeline model.
MaxClock == 2           \* the pipeline clock runs from 0 to MaxClock hours
MaxPasses == 2          \* passes of the Quality Gate, and of the Auto-Publisher

\* one hour passes
Elapse ==
    /\ now < MaxClock
    /\ now' = now + 1
    /\ last_op' = [name |-> "elapse"]
    /\ UNCHANGED <<urlVars, curVars, ctlVars, pipeVars, scraping_items, next_id,
                   inflight>>

\* ---- enrichment (process_ai.py) ----------------------------------------

\* the column default of scraping_items.max_retries
max_retries == 3

\* ai_data.get("is_valid", True)
stored_is_valid(ai_data) ==
    IF ai_data.is_valid = "absent" THEN "true" ELSE ai_data.is_valid

\* Python truth of a stored is_valid: True and a non-empty string
truthy(v) == v \in {"true", "text"}

\* update_item_with_ai_data: the UPDATE that stores an enrichment answer
update_item_with_ai_data(row, ai_data) ==
    LET is_valid == stored_is_valid(ai_data) IN
    [row EXCEPT
        !.ai_title = ai_data.title,
        !.ai_summary = ai_data.summary,
        !.ai_category = ai_data.category,
        !.ai_metadata = [sin_vueltas |-> ai_data.sin_vueltas,
                         lo_central |-> ai_data.lo_central,
                         en_profundidad |-> ai_data.en_profundidad,
                         is_valid |-> is_valid],
        !.ai_processed_at = now,
        !.status = IF truthy(is_valid) THEN "ai_completed" ELSE "discarded",
        !.status_message = IF truthy(is_valid) THEN Msg("ai_completed")
                           ELSE Msg("ai_discarded"),
        !.status_updated_at = now]

\* process_single_item on one row that get_items_to_process selects: the
\* answer of the language model is stored, or the failed call is counted
process_single_item(item_id, ai_data) ==
    /\ item_id \in Ids
    /\ scraping_items[item_id].status \in {"scraped", "ready_for_ai"}
    /\ scraping_items[item_id].retry_count < max_retries
    /\ scraping_items' =
           [scraping_items EXCEPT
               ![item_id] =
                   IF ai_data.failed
                   THEN [@ EXCEPT !.retry_count = @ + 1]
                   ELSE update_item_with_ai_data(@, ai_data)]
    /\ last_op' = [name |-> "enrich", id |-> item_id,
                   failed |-> ai_data.failed]
    /\ UNCHANGED <<urlVars, curVars, ctlVars, pipeVars, now, next_id, inflight>>

\* process_single_item when update_item_with_ai_data returns False (its
\* UPDATE raised): "Failed to update database", and nothing is written
process_single_item_not_stored(item_id) ==
    /\ item_id \in Ids
    /\ scraping_items[item_id].status \in {"scraped", "ready_for_ai"}
    /\ scraping_items[item_id].retry_count < max_retries
    /\ last_op' = [name |-> "enrich", id |-> item_id, failed |-> TRUE]
    /\ UNCHANGED <<urlVars, curVars, ctlVars, pipeVars, now, scraping_items,
                   next_id, inflight>>

\* ---- Quality Gate (auto_prepare.py) ------------------------------------

MIN_TITLE_LENGTH == 20
MIN_SUMMARY_LENGTH == 50
MIN_CONTENT_LENGTH == 100
\* 0.6 as a ratio
SIMILARITY_THRESHOLD == <<6, 10>>
EXPIRE_READY_TO_PUBLISH_HOURS == 12
EXPIRE_AI_COMPLETED_HOURS == 24

\* the whitelist, its accents dropped
VALID_CATEGORIES ==
    {"Ciencia", "Cultura", "Deportes", "Economia", "Educacion",
     "Investigacion", "Medio Ambiente", "Politica", "Salud", "Sociedad",
     "Tecnologia", "Turismo"}

\* every ordering of the set S as a sequence
Orderings(S) ==
    {q \in [1..Cardinality(S) -> S] :
        \A i, j \in 1..Cardinality(S) : i # j => q[i] # q[j]}

\* variant: ORDER BY ai_processed_at ASC
GateOrder_ascending(a, b) ==
    \/ b.ai_processed_at = -1
    \/ a.ai_processed_at # -1 /\ a.ai_processed_at <= b.ai_processed_at

\* ORDER BY ai_processed_at DESC: a may come before b (NULLs come first)
GateOrder(a, b) ==
    \/ a.ai_processed_at = -1
    \/ b.ai_processed_at # -1 /\ a.ai_processed_at >= b.ai_processed_at

\* get_ai_completed_items: the results the SELECT can return, each a list of
\* row copies (rows with the same ai_processed_at come in either order)
get_ai_completed_items(limit) ==
    LET S == {i \in Ids : scraping_items[i].status = "ai_completed"}
    IN  {SubSeq([k \in 1..Cardinality(S) |-> scraping_items[q[k]]], 1,
                Min(limit, Cardinality(S)))
         : q \in {o \in Orderings(S) :
                     \A i, j \in 1..Cardinality(S) :
                         i < j => GateOrder(scraping_items[o[i]],
                                            scraping_items[o[j]])}}

\* pg_trgm similarity(LOWER(a), LOWER(b)): shared trigrams over all trigrams
similarity(a, b) ==
    LET ga == {lower(g) : g \in a.grams}
        gb == {lower(g) : g \in b.grams}
    IN  IF ga \cup gb = {} THEN <<0, 1>>
        ELSE <<Cardinality(ga \cap gb), Cardinality(ga \cup gb)>>

NoMatch ==
    [found |-> FALSE, kind |-> "none", id |-> 0, title |-> NullTitle,
     similarity |-> <<0, 1>>]

\* ORDER BY sim DESC LIMIT 1: the rows no other row beats
BestOf(C) == {c \in C : \A d \in C : ~ SimGT(d.similarity, c.similarity)}

\* the comparison of a score with the threshold in the two SELECTs
OverThreshold(sim) == SimGT(sim, SIMILARITY_THRESHOLD)

\* check_duplicate_by_title: the results it can return.  Published articles
\* are searched first, then the other items in ready_to_publish or published.
check_duplicate_by_title(ai_title, item_id) ==
    IF StrLen(ai_title) = 0 THEN {NoMatch}
    ELSE
    LET pubs == {[found |-> TRUE, kind |-> "publication", id |-> p,
                  title |-> publications[p].title,
                  similarity |-> similarity(publications[p].title, ai_title)]
                 : p \in {x \in DOMAIN publications :
                            /\ publications[x].state = "published"
                            /\ OverThreshold(similarity(publications[x].title,
                                                        ai_title))}}
        others == {[found |-> TRUE, kind |-> "item", id |-> i,
                    title |-> scraping_items[i].ai_title,
                    similarity |-> similarity(scraping_items[i].ai_title,
                                              ai_title)]
                   : i \in {x \in Ids :
                              /\ x # item_id
                              /\ scraping_items[x].status
                                    \in {"ready_to_publish", "published"}
                              /\ StrLen(scraping_items[x].ai_title) > 0
                              /\ OverThreshold(
                                    similarity(scraping_items[x].ai_title,
                                               ai_title))}}
    IN  IF pubs # {} THEN BestOf(pubs)
        ELSE IF others # {} THEN BestOf(others)
        ELSE {NoMatch}

\* validate_quality returns (is_valid, reason)
validate_quality(item) ==
    IF StripLen(item.ai_title) < MIN_TITLE_LENGTH
        THEN [ok |-> FALSE, reason |-> "title"]
    ELSE IF StripLen(item.ai_summary) < MIN_SUMMARY_LENGTH
        THEN [ok |-> FALSE, reason |-> "summary"]
    ELSE IF item.ai_category \notin VALID_CATEGORIES
        THEN [ok |-> FALSE, reason |-> "category"]
    ELSE IF item.ai_metadata.sin_vueltas < 20
        THEN [ok |-> FALSE, reason |-> "sin_vueltas"]
    ELSE IF item.ai_metadata.lo_central < 50
        THEN [ok |-> FALSE, reason |-> "lo_central"]
    ELSE IF item.ai_metadata.en_profundidad < MIN_CONTENT_LENGTH
        THEN [ok |-> FALSE, reason |-> "en_profundidad"]
    ELSE IF StripLen(item.content) < MIN_CONTENT_LENGTH
        THEN [ok |-> FALSE, reason |-> "content"]
    ELSE IF item.ai_metadata.is_valid = "false"
        THEN [ok |-> FALSE, reason |-> "is_valid"]
    ELSE [ok |-> TRUE, reason |-> "OK"]

\* update_item_status
update_item_status(row, status, message) ==
    [row EXCEPT !.status = status,
                !.status_message = message,
                !.status_updated_at = now]

\* f"{similarity:.0%}": the score in per cent, rounded
Percent(sim) == (200 * sim[1] + sim[2]) \div (2 * sim[2])

\* the status and the message process_item writes
gate_decision(item, dup) ==
    LET q == validate_quality(item) IN
    IF ~ q.ok
    THEN [action |-> "quality_failed", status |-> "ai_completed",
          message |-> Msg("quality_failed: " \o q.reason)]
    ELSE IF dup.found
    THEN [action |-> "duplicate", status |-> "duplicate",
          message |-> [kind |-> "duplicate", title |-> dup.title,
                       shown |-> Min(60, StrLen(dup.title)),
                       pct |-> Percent(dup.similarity)]]
    ELSE [action |-> "ready_to_publish", status |-> "ready_to_publish",
          message |-> Msg("approved")]

\* main, up to the SELECT: with nothing to review the run ends at once,
\* without the expiry sweep
auto_prepare_start ==
    /\ gate_pass.pc = "idle"
    /\ gate_pass.pass_no < MaxPasses
    /\ \E items \in get_ai_completed_items(100) :
         IF items = <<>>
         THEN /\ last_op' = [name |-> "gate_empty"]
              /\ UNCHANGED gate_pass
         ELSE /\ last_op' = [name |-> "gate_start"]
              /\ gate_pass' = [pc |-> "items", queue |-> items,
                               pass_no |-> gate_pass.pass_no + 1, pos |-> 0]
    /\ UNCHANGED <<urlVars, curVars, ctlVars, now, scraping_items, next_id, inflight,
                   publications, scraping_sources, gate_log, publish_pass,
                   ready_since>>

\* main, one turn of the loop: process_item on the next row copy
auto_prepare_process_item ==
    /\ gate_pass.pc = "items"
    /\ LET item == Head(gate_pass.queue)
           rest == Tail(gate_pass.queue)
       IN  \E dup \in (IF validate_quality(item).ok
                       THEN check_duplicate_by_title(item.ai_title, item.id)
                       ELSE {NoMatch}) :
             LET d == gate_decision(item, dup) IN
             /\ scraping_items' =
                    IF item.id \in Ids
                    THEN [scraping_items EXCEPT
                             ![item.id] =
                                 update_item_status(@, d.status, d.message)]
                    ELSE scraping_items
             /\ gate_log' =
                    (item.id :> [pass_no |-> gate_pass.pass_no,
                                 pos |-> gate_pass.pos + 1,
                                 action |-> d.action,
                                 ai_processed_at |-> item.ai_processed_at])
                    @@ gate_log
             /\ last_op' = [name |-> "gate_item", id |-> item.id,
                            item |-> item, action |-> d.action, dup |-> dup]
             /\ gate_pass' = [gate_pass EXCEPT
                                 !.queue = rest,
                                 !.pos = @ + 1,
                                 !.pc = IF rest = <<>> THEN "cleanup"
                                        ELSE "items"]
    /\ ready_since' = ReadySince(scraping_items')
    /\ UNCHANGED <<urlVars, curVars, ctlVars, now, next_id, inflight, publications,
                   scraping_sources, publish_pass>>

\* cleanup_expired_items: the two UPDATEs of the expiry sweep
cleanup_expired_items(rows) ==
    [i \in DOMAIN rows |->
        IF /\ rows[i].status = "ready_to_publish"
           /\ rows[i].status_updated_at < now - EXPIRE_READY_TO_PUBLISH_HOURS
        THEN update_item_status(rows[i], "expired", Msg("expired"))
        ELSE IF /\ rows[i].status = "ai_completed"
                /\ rows[i].status_updated_at < now - EXPIRE_AI_COMPLETED_HOURS
        THEN update_item_status(rows[i], "discarded", Msg("auto_discarded"))
        ELSE rows[i]]

\* main, after the loop: the expiry sweep ends the run
auto_prepare_cleanup ==
    /\ gate_pass.pc = "cleanup"
    /\ scraping_items' = cleanup_expired_items(scraping_items)
    /\ gate_pass' = [gate_pass EXCEPT !.pc = "idle"]
    /\ last_op' = [name |-> "gate_cleanup"]
    /\ UNCHANGED <<urlVars, curVars, ctlVars, now, next_id, inflight, publications,
                   scraping_sources, gate_log, publish_pass, ready_since>>

\* ---- publishing --------------------------------------------------------

\* INSERT INTO publications under the unique index on scraping_item_id and
\* the foreign key to scraping_items: the new table, or the old one if the
\* INSERT is rejected
insert_publication(item_id, title) ==
    IF \/ item_id \notin Ids
       \/ \E p \in DOMAIN publications :
             publications[p].scraping_item_id = item_id
    THEN publications
    ELSE LET id == Cardinality(DOMAIN publications) + 1
         IN  (id :> [id |-> id, scraping_item_id |-> item_id,
                     state |-> "published", title |-> title])
             @@ publications

\* item.ai_title or item.title
title_to_use(item) ==
    IF StrLen(item.ai_title) > 0 THEN item.ai_title ELSE item.title

\* publish_req.override_title or item.ai_title or item.title
title_to_publish(item, override_title) ==
    IF StrLen(override_title) > 0 THEN override_title ELSE title_to_use(item)

\* publish_scraping_item: an admin publishes one item, under the title of
\* the request if it has one
publish_scraping_item_as(item_id, override_title) ==
    /\ item_id \in Ids
    /\ scraping_items[item_id].status \notin {"published", "discarded"}
    /\ scraping_items[item_id].publication_id = 0
    /\ StrLen(title_to_publish(scraping_items[item_id], override_title)) > 0
    /\ publications' =
           insert_publication(item_id,
                              title_to_publish(scraping_items[item_id],
                                               override_title))
    /\ publications' # publications
    /\ scraping_items' =
           [scraping_items EXCEPT
               ![item_id].publication_id =
                   Cardinality(DOMAIN publications) + 1,
               ![item_id].status = "published"]
    /\ last_op' = [name |-> "manual_publish", id |-> item_id]
    /\ UNCHANGED <<urlVars, curVars, ctlVars, now, next_id, inflight,
                   scraping_sources, gate_pass, gate_log, publish_pass,
                   ready_since>>

\* the request without override_title
publish_scraping_item(item_id) == publish_scraping_item_as(item_id, NullTitle)

\* delete_scraping_source
delete_scraping_source(slug) ==
    /\ \E src \in scraping_sources : src.slug = slug
    /\ scraping_sources' = {src \in scraping_sources : src.slug # slug}
    /\ last_op' = [name |-> "delete_source", slug |-> slug]
    /\ UNCHANGED <<urlVars, curVars, ctlVars, now, scraping_items, next_id, inflight,
                   publications, gate_pass, gate_log, publish_pass,
                   ready_since>>

\* ORDER BY status_updated_at ASC
AscByStatusUpdate(a, b) == a.status_updated_at <= b.status_updated_at

\* the WHERE clause of get_items_to_publish on a joined pair of rows; the
\* delay is in minutes and the clock in hours
ready_for_auto_publish(si, ss) ==
    /\ ss.slug = si.source_media
    /\ si.status = "ready_to_publish"
    /\ ss.auto_publish
    /\ 60 * si.status_updated_at <= 60 * now - ss.auto_publish_delay_minutes
    /\ si.publication_id = 0

\* get_items_to_publish: the results the SELECT can return
get_items_to_publish(limit) ==
    LET S == {i \in Ids :
                 \E ss \in scraping_sources :
                     ready_for_auto_publish(scraping_items[i], ss)}
    IN  {SubSeq([k \in 1..Cardinality(S) |-> scraping_items[q[k]]], 1,
                Min(limit, Cardinality(S)))
         : q \in {o \in Orderings(S) :
                     \A i, j \in 1..Cardinality(S) :
                         i < j => AscByStatusUpdate(scraping_items[o[i]],
                                                    scraping_items[o[j]])}}

\* auto_publish main, up to the SELECT; with nothing to publish the run ends
auto_publish_start ==
    /\ publish_pass.pc = "idle"
    /\ publish_pass.pass_no < MaxPasses
    /\ \E items \in get_items_to_publish(50) :
         IF items = <<>>
         THEN /\ last_op' = [name |-> "publish_empty"]
              /\ UNCHANGED publish_pass
         ELSE /\ last_op' = [name |-> "publish_start"]
              /\ publish_pass' = [pc |-> "items", queue |-> items,
                                  pass_no |-> publish_pass.pass_no + 1,
                                  pos |-> 0]
    /\ UNCHANGED <<urlVars, curVars, ctlVars, now, scraping_items, next_id, inflight,
                   publications, scraping_sources, gate_pass, gate_log,
                   ready_since>>

\* auto_publish main, one turn of the loop: process_item and
\* create_publication on the next row copy.  Without a title the item gets
\* an error message; a rejected INSERT is logged and changes nothing; else
\* the item becomes published.
auto_publish_process_item ==
    /\ publish_pass.pc = "items"
    /\ LET item == Head(publish_pass.queue)
           rest == Tail(publish_pass.queue)
           title == title_to_use(item)
           inserted == insert_publication(item.id, title)
       IN  /\ IF StrLen(title) = 0
              THEN /\ scraping_items' =
                          IF item.id \in Ids
                          THEN [scraping_items EXCEPT
                                   ![item.id].status_message =
                                       Msg("auto_publish_error"),
                                   ![item.id].status_updated_at = now]
                          ELSE scraping_items
                   /\ UNCHANGED publications
                   /\ last_op' = [name |-> "auto_publish_item",
                                  id |-> item.id, action |-> "error"]
              ELSE IF inserted = publications
              THEN /\ UNCHANGED <<scraping_items, publications>>
                   /\ last_op' = [name |-> "auto_publish_item",
                                  id |-> item.id, action |-> "error"]
              ELSE /\ publications' = inserted
                   /\ scraping_items' =
                          [scraping_items EXCEPT
                              ![item.id].publication_id =
                                  Cardinality(DOMAIN publications) + 1,
                              ![item.id].status = "published",
                              ![item.id].status_message =
                                  Msg("auto_published"),
                              ![item.id].status_updated_at = now]
                   /\ last_op' = [name |-> "auto_publish_item",
                                  id |-> item.id, action |-> "published"]
           /\ publish_pass' = [publish_pass EXCEPT
                                  !.queue = rest,
                                  !.pos = @ + 1,
                                  !.pc = IF rest = <<>> THEN "idle"
                                         ELSE "items"]
    /\ UNCHANGED <<urlVars, curVars, ctlVars, now, next_id, inflight,
                   scraping_sources, gate_pass, gate_log, ready_since>>

\* ---- the Quality Gate on one item: specification SpecQuality -----------

\* headlines for the duplicate check: A and its upper-case spelling have the
\* same trigrams once lower-cased; A and B share 3 trigrams of 5 (0.6), A
\* and C 4 of 5 (0.8), B and C 3 of 6 (0.5)
TitleA ==
    [words |-> <<"senado", "aprueba", "presupuesto">>, body |-> 26,
     pad |-> 0, grams |-> {"sen", "ena", "nad", "ado"}]
TitleAUpper ==
    [words |-> <<"SENADO", "APRUEBA", "PRESUPUESTO">>, body |-> 26,
     pad |-> 0, grams |-> {"SEN", "ENA", "NAD", "ADO"}]
TitleB ==
    [words |-> <<"senado", "rechaza", "presupuesto">>, body |-> 26,
     pad |-> 0, grams |-> {"sen", "ena", "nad", "rec"}]
TitleC ==
    [words |-> <<"senado", "aprueba", "ley", "presupuesto">>, body |-> 30,
     pad |-> 0, grams |-> {"sen", "ena", "nad", "ado", "ley"}]

\* an answer of the language model that meets every minimum exactly
GoodResponse ==
    [failed |-> FALSE,
     title |-> [TitleA EXCEPT !.body = 20],
     summary |-> [body |-> 50, pad |-> 0],
     category |-> "Politica",
     sin_vueltas |-> 20, lo_central |-> 50, en_profundidad |-> 100,
     is_valid |-> "true"]

\* the call to the language model failed: process_item_with_ai returned None
AiFailure == [GoodResponse EXCEPT !.failed = TRUE]

\* GoodResponse and its neighbours: one field one step off
QualityResponses ==
    {GoodResponse,
     [GoodResponse EXCEPT !.title.body = 19],
     [GoodResponse EXCEPT !.title.body = 19, !.title.pad = 1],
     [GoodResponse EXCEPT !.title = NullTitle],
     [GoodResponse EXCEPT !.summary.body = 49],
     [GoodResponse EXCEPT !.category = "politica"],
     [GoodResponse EXCEPT !.category = ""],
     [GoodResponse EXCEPT !.sin_vueltas = 19],
     [GoodResponse EXCEPT !.sin_vueltas = 0],
     [GoodResponse EXCEPT !.lo_central = 49],
     [GoodResponse EXCEPT !.en_profundidad = 99],
     [GoodResponse EXCEPT !.is_valid = "false"],
     [GoodResponse EXCEPT !.is_valid = "null"],
     [GoodResponse EXCEPT !.is_valid = "absent"],
     [GoodResponse EXCEPT !.is_valid = "text"]}

\* the bodies of a PATCH that stores enrichment results by hand
QualityPatches ==
    {[status |-> "ai_completed",
      ai_title |-> r.title, ai_summary |-> r.summary,
      ai_category |-> r.category,
      ai_metadata |-> [sin_vueltas |-> r.sin_vueltas,
                       lo_central |-> r.lo_central,
                       en_profundidad |-> r.en_profundidad,
                       is_valid |-> r.is_valid]]
     : r \in {q \in QualityResponses :
                 q.is_valid # "true" \/ q = GoodResponse}}

\* original texts at the minimum, one short of it, and padded up to it
QualityContents ==
    {[txt |-> "texto uno", body |-> 100, pad |-> 0],
     [txt |-> "texto uno", body |-> 99, pad |-> 0],
     [txt |-> "texto uno", body |-> 99, pad |-> 1]}

\* the row a scraper stored at hour t for the k-th of InsertUrls' hashes
ScrapedRow(id, source_media, content, title, t) ==
    [NewRow(id,
            [source_media |-> source_media,
             url_hash |-> hash_text(<<"url", id>>),
             content |-> content,
             content_hash |-> generate_content_hash(content),
             title |-> title],
            t, "scraped", Msg("scraped"))
        EXCEPT !.status_updated_at = t]

InitQuality ==
    /\ url_u = <<>>
    /\ url_v = <<>>
    /\ CuratorIdle
    /\ CtlIdle
    /\ now = 0
    /\ \E c \in QualityContents :
         scraping_items = (1 :> ScrapedRow(1, "lagaceta", c, TitleA, 0))
    /\ next_id = 1
    /\ inflight = {}
    /\ last_op = NoOp
    /\ PipeIdle

NextQuality ==
    \/ Elapse
    \/ \E item_id \in Ids, r \in QualityResponses \cup {AiFailure} :
          process_single_item(item_id, r)
    \/ \E item_id \in Ids, u \in QualityPatches :
          update_scraping_item(item_id, u)
    \/ auto_prepare_start
    \/ auto_prepare_process_item
    \/ auto_prepare_cleanup

SpecQuality == InitQuality /\ [][NextQuality]_vars

\* a step of the Quality Gate's loop, and the row copy it evaluates
GateStep == gate_pass.pc = "items" /\ gate_pass' # gate_pass
Evaluated == Head(gate_pass.queue)

\* the criteria of the quality check as the specification lists them
FailsQualityCriterion(item) ==
    \/ StrLen(item.ai_title) < 20
    \/ StrLen(item.ai_summary) < 50
    \/ item.ai_category \notin VALID_CATEGORIES
    \/ item.ai_metadata.sin_vueltas < 20
    \/ item.ai_metadata.lo_central < 50
    \/ item.ai_metadata.en_profundidad < 100
    \/ StrLen(item.content) < 100
    \/ item.ai_metadata.is_valid # "true"

\* the messages that name the criterion an item failed
DiagnosticKinds ==
    {"quality_failed: " \o r :
        r \in {"title", "summary", "category", "sin_vueltas", "lo_central",
               "en_profundidad", "content", "is_valid"}}

KeepsAiCompleted ==
    LET old == scraping_items[Evaluated.id]
        new == scraping_items'[Evaluated.id]
    IN  /\ new.status = "ai_completed"
        /\ new.status_message.kind \in DiagnosticKinds
        /\ new.retry_count = old.retry_count

\* C3: the Quality Gate never moves to ready_to_publish an item that fails
\* a quality criterion (title under 20, summary under 50, category outside
\* the whitelist, a rendering missing or short, original text under 100, or
\* a validity flag that is not true); the item stays ai_completed with a
\* diagnostic message and its retry_count unchanged.
C3_NoPromotionOnFailure ==
    [][(GateStep /\ FailsQualityCriterion(Evaluated)) => KeepsAiCompleted]_vars

\* ---- the Quality Gate on two items: specification SpecGate -------------

GateTitles == {TitleA, TitleAUpper, TitleB, TitleC}

\* answers of the language model that pass the quality check
GateResponses == {[GoodResponse EXCEPT !.title = t] : t \in GateTitles}

GoodContent == [txt |-> "texto uno", body |-> 120, pad |-> 0]

\* an article of the site that did not come from an item
Article(state, title) ==
    [id |-> 1, scraping_item_id |-> 0, state |-> state, title |-> title]

\* two rows scraped at hours 0 and 1, the clock at hour 1; no article, a
\* published one or a draft
InitGate ==
    /\ url_u = <<>>
    /\ url_v = <<>>
    /\ CuratorIdle
    /\ CtlIdle
    /\ now = 1
    /\ scraping_items =
           (1 :> ScrapedRow(1, "lagaceta", GoodContent, TitleA, 0))
           @@ (2 :> ScrapedRow(2, "lagaceta", GoodContent, TitleB, 1))
    /\ next_id = 2
    /\ inflight = {}
    /\ last_op = NoOp
    /\ publications \in {<<>>, (1 :> Article("published", TitleA)),
                         (1 :> Article("draft", TitleA))}
    /\ scraping_sources = {}
    /\ gate_pass = NoPass
    /\ gate_log = <<>>
    /\ publish_pass = NoPass
    /\ ready_since = <<>>

NextGate ==
    \/ Elapse
    \/ \E item_id \in Ids, r \in GateResponses :
          process_single_item(item_id, r)
    \/ auto_prepare_start
    \/ auto_prepare_process_item
    \/ auto_prepare_cleanup
    \/ \E item_id \in Ids : publish_scraping_item(item_id)

SpecGate == InitGate /\ [][NextGate]_vars

\* the titles the duplicate check compares the evaluated copy with, each
\* with its score: published articles, and the other items that are
\* ready_to_publish or published
ComparedTitles ==
    {[title |-> publications[p].title,
      similarity |-> similarity(publications[p].title, Evaluated.ai_title)]
     : p \in {x \in DOMAIN publications :
                 publications[x].state = "published"}}
    \cup
    {[title |-> scraping_items[i].ai_title,
      similarity |-> similarity(scraping_items[i].ai_title,
                                Evaluated.ai_title)]
     : i \in {x \in Ids : /\ x # Evaluated.id
                          /\ scraping_items[x].status
                                \in {"ready_to_publish", "published"}}}

\* C5: a candidate that passed the quality check is marked duplicate exactly
\* when its enriched title scores 0.6 or more (0.6 included) against the
\* title of a published article or the enriched title of another item in
\* ready_to_publish or published, and then the message records that title
\* and the score; otherwise it is marked ready_to_publish.
C5_DuplicateFromSixTenths ==
    [][(GateStep /\ validate_quality(Evaluated).ok) =>
        LET new == scraping_items'[Evaluated.id]
            hits == {c \in ComparedTitles : SimGE(c.similarity, <<6, 10>>)}
        IN  IF hits # {}
            THEN /\ new.status = "duplicate"
                 /\ \E c \in hits :
                      /\ new.status_message.title = c.title
                      /\ new.status_message.shown = StrLen(c.title)
                      /\ new.status_message.pct = Percent(c.similarity)
            ELSE new.status = "ready_to_publish"]_vars

\* the other item a gate step matched, when it matched an item
MatchedItem == last_op'.dup.id

\* a gate step marks the evaluated item a duplicate of another item that the
\* gate itself made ready_to_publish
MarksDuplicateOfReadyItem ==
    /\ GateStep
    /\ last_op'.action = "duplicate"
    /\ last_op'.dup.kind = "item"
    /\ MatchedItem \in DOMAIN gate_log
    /\ gate_log[MatchedItem].action = "ready_to_publish"

\* C4 as stated: of two similar quality-passing items the gate marks the
\* newer as duplicate and lets the older be ready_to_publish, in one pass or
\* in two.
C4_NewerIsMarked ==
    [][MarksDuplicateOfReadyItem =>
        /\ Evaluated.scraped_at >= scraping_items[MatchedItem].scraped_at
        /\ Evaluated.ai_processed_at
               >= scraping_items[MatchedItem].ai_processed_at]_vars

\* C4: of two quality-passing items whose enriched titles score above the
\* duplicate threshold, the one the gate evaluates first is made
\* ready_to_publish and the one it evaluates later is marked duplicate, if
\* the first is still ready_to_publish or published by then.  One pass
\* evaluates the most recently enriched item first, so in one pass the item
\* enriched later is kept and the item enriched earlier is the duplicate; in
\* two passes the item of the first pass is kept.
C4_LaterEvaluatedIsMarked ==
    [][/\ (GateStep /\ validate_quality(Evaluated).ok
           /\ \E c \in ComparedTitles : OverThreshold(c.similarity))
          => /\ scraping_items'[Evaluated.id].status = "duplicate"
             /\ \A i \in Ids \ {Evaluated.id} :
                  scraping_items'[i] = scraping_items[i]
       /\ MarksDuplicateOfReadyItem
          => /\ scraping_items'[MatchedItem].status
                   \in {"ready_to_publish", "published"}
             /\ gate_log[MatchedItem].pass_no <= gate_pass.pass_no
             /\ gate_log[MatchedItem].pass_no = gate_pass.pass_no
                  => gate_log[MatchedItem].ai_processed_at
                        >= Evaluated.ai_processed_at]_vars

\* C4 witness: in one pass the gate kept the item that was scraped and
\* enriched later and marked the older one a duplicate of it.
C4_Witness ==
    /\ last_op.name = "gate_item"
    /\ last_op.action = "duplicate"
    /\ last_op.dup.kind = "item"
    /\ last_op.dup.id \in DOMAIN gate_log
    /\ gate_log[last_op.dup.id].action = "ready_to_publish"
    /\ gate_log[last_op.dup.id].pass_no = gate_log[last_op.id].pass_no
    /\ gate_log[last_op.dup.id].ai_processed_at
           > gate_log[last_op.id].ai_processed_at
    /\ scraping_items[last_op.dup.id].scraped_at
           > scraping_items[last_op.id].scraped_at
    /\ scraping_items[last_op.dup.id].status = "ready_to_publish"
    /\ scraping_items[last_op.id].status = "duplicate"

\* ---- the Auto-Publisher on two items: specification SpecPublish --------

\* the slugs of the configured sources; items of "clarin" match no source
SourceSlugs == {"lagaceta", "infobae"}
ItemSources == SourceSlugs \cup {"clarin"}
DelayMinutes == {0, 60}

\* a row the Quality Gate approved at hour 0
ReadyRow(id, source_media) ==
    [update_item_with_ai_data(
         ScrapedRow(id, source_media, GoodContent, TitleA, 0), GoodResponse)
       EXCEPT !.status = "ready_to_publish",
              !.status_message = Msg("approved")]

\* two approved rows and two sources, each with or without auto_publish
InitPublish ==
    /\ url_u = <<>>
    /\ url_v = <<>>
    /\ CuratorIdle
    /\ CtlIdle
    /\ now = 0
    /\ \E m1, m2 \in ItemSources :
         scraping_items = (1 :> ReadyRow(1, m1)) @@ (2 :> ReadyRow(2, m2))
    /\ next_id = 2
    /\ inflight = {}
    /\ last_op = NoOp
    /\ publications = <<>>
    /\ \E ap \in [SourceSlugs -> BOOLEAN],
          dm \in [SourceSlugs -> DelayMinutes] :
         scraping_sources =
             {[slug |-> sl, auto_publish |-> ap[sl],
               auto_publish_delay_minutes |-> dm[sl]] : sl \in SourceSlugs}
    /\ gate_pass = NoPass
    /\ gate_log = <<>>
    /\ publish_pass = NoPass
    /\ ready_since = (1 :> 0) @@ (2 :> 0)

NextPublish ==
    \/ Elapse
    \/ auto_publish_start
    \/ auto_publish_process_item
    \/ \E slug \in SourceSlugs : delete_scraping_source(slug)
    \/ \E item_id \in Ids : publish_scraping_item(item_id)

SpecPublish == InitPublish /\ [][NextPublish]_vars

\* a turn of the Auto-Publisher's loop that publishes the item it holds
AutoPublishes ==
    /\ publish_pass.pc = "items"
    /\ publish_pass' # publish_pass
    /\ last_op'.action = "published"

\* C10: the Auto-Publisher never publishes an item whose source has
\* auto_publish disabled or that has no matching source, in any pass and at
\* any age of the item.
C10_OnlySourcesThatAutoPublish ==
    [][AutoPublishes =>
        \E ss \in scraping_sources :
            /\ ss.slug = scraping_items[last_op'.id].source_media
            /\ ss.auto_publish]_vars

\* ---- the review window of the Auto-Publisher: specification SpecDelay ---

\* a row that enrichment completed at hour 0
EnrichedRow(id, source_media) ==
    update_item_with_ai_data(
        ScrapedRow(id, source_media, GoodContent, TitleA, 0),
        [GoodResponse EXCEPT !.title = IF id = 1 THEN TitleA ELSE TitleB])

\* the status an admin sets by PATCH in this specification
ReviewStatuses == {"ready_to_publish"}

\* two enriched rows of two sources that publish automatically, each after
\* its own delay
InitDelay ==
    /\ url_u = <<>>
    /\ url_v = <<>>
    /\ CuratorIdle
    /\ CtlIdle
    /\ now = 0
    /\ scraping_items =
           (1 :> EnrichedRow(1, "lagaceta")) @@ (2 :> EnrichedRow(2, "infobae"))
    /\ next_id = 2
    /\ inflight = {}
    /\ last_op = NoOp
    /\ publications = <<>>
    /\ \E dm \in [SourceSlugs -> DelayMinutes] :
         scraping_sources =
             {[slug |-> sl, auto_publish |-> TRUE,
               auto_publish_delay_minutes |-> dm[sl]] : sl \in SourceSlugs}
    /\ gate_pass = NoPass
    /\ gate_log = <<>>
    /\ publish_pass = NoPass
    /\ ready_since = <<>>

NextDelay ==
    \/ Elapse
    \/ auto_prepare_start
    \/ auto_prepare_process_item
    \/ auto_prepare_cleanup
    \/ \E item_id \in Ids, st \in ReviewStatuses :
          update_scraping_item(item_id, [status |-> st])
    \/ auto_publish_start
    \/ auto_publish_process_item

SpecDelay == InitDelay /\ [][NextDelay]_vars

\* the minutes the item that a step publishes has been ready_to_publish
MinutesReady == 60 * (now - ready_since[last_op'.id])

\* C11: the Auto-Publisher never publishes an item that has been in
\* ready_to_publish for less than the auto_publish_delay_minutes of its
\* source, whether the Quality Gate or a manual status update moved it there.
C11_NeverBeforeTheDelay ==
    [][AutoPublishes =>
        \A ss \in scraping_sources :
            ss.slug = scraping_items[last_op'.id].source_media
                => MinutesReady >= ss.auto_publish_delay_minutes]_vars

\* ========================================================================
\* 5. SCRAPER SERVICE: controller, control API, scheduler loop
\*    (scraping/control_server.py, scraping/scraper_service.py)
\* ========================================================================

\* Bounds of the service model: log entries written in one behaviour, and
\* connected log subscribers.
MaxLog == 2
MaxRetryCount == 4      \* retries counted for one item
MaxErrors == 2          \* consecutive errors counted for one source
MaxSubscribers == 2
MaxGets == 2             \* entries a stuck subscriber reads

\* deque(maxlen=1000) and asyncio.Queue(maxsize=100)
LOG_BUFFER_MAXLEN == 1000
QUEUE_MAXSIZE == 100

\* None
Null == "None"

\* an optional list: None, or a list
none_list == [none |-> TRUE, list |-> <<>>]
some_list(l) == [none |-> FALSE, list |-> l]

\* ---- ScraperController.add_log ------------------------------------------

\* A subscriber's queue is [backlog, entries]: the number of older entries
\* at its head, still unread, and the entries put behind them.
EmptyQueue == [backlog |-> 0, entries |-> <<>>]
qsize(queue) == queue.backlog + Len(queue.entries)

\* queue.put_nowait(log_entry) under "except asyncio.QueueFull: pass"
put_nowait(queue, log_entry) ==
    IF qsize(queue) >= QUEUE_MAXSIZE
    THEN queue
    ELSE [queue EXCEPT !.entries = Append(@, log_entry)]

\* queue.get()
queue_get(queue) ==
    IF queue.backlog > 0
    THEN [queue EXCEPT !.backlog = @ - 1]
    ELSE [queue EXCEPT !.entries = Tail(@)]

\* a loop that the first full queue ends: QueueFull is not caught
notify_until_full(log_subscribers, log_entry) ==
    LET full == {i \in DOMAIN log_subscribers :
                    qsize(log_subscribers[i]) >= QUEUE_MAXSIZE}
    IN  [i \in DOMAIN log_subscribers |->
            IF \E j \in full : j <= i THEN log_subscribers[i]
            ELSE put_nowait(log_subscribers[i], log_entry)]
\* for queue in self.log_subscribers: put_nowait, skipping a full queue
notify_subscribers(log_subscribers, log_entry) ==
    [i \in DOMAIN log_subscribers |->
        put_nowait(log_subscribers[i], log_entry)]

\* self.log_buffer.append(log_entry) on a deque with maxlen
buffer_append(log_buffer, log_entry) ==
    IF Len(log_buffer) >= LOG_BUFFER_MAXLEN
    THEN Append(Tail(log_buffer), log_entry)
    ELSE Append(log_buffer, log_entry)

\* add_log: the entry goes to the buffer and to every subscriber's queue
add_log(l, message, level) ==
    LET log_entry == [level |-> level, message |-> message]
    IN  [log_buffer |-> buffer_append(l.log_buffer, log_entry),
         log_subscribers |-> notify_subscribers(l.log_subscribers, log_entry)]

\* ---- ScraperController and the command endpoints -----------------------

\* _load_config: the default configuration; intervals are in clock units
default_config ==
    [scrape_enabled |-> TRUE,
     ai_process_enabled |-> TRUE,
     auto_prepare_enabled |-> TRUE,
     auto_publish_enabled |-> TRUE,
     scrape_interval_minutes |-> 2,
     ai_process_interval_minutes |-> 1,
     selected_source_ids |-> none_list,
     curator_enabled |-> FALSE,
     curator_interval_minutes |-> 2]

\* ScraperController.__init__, then controller.status = "running" in main
NewController(config) ==
    [status |-> "running",
     current_task |-> Null,
     config |-> config,
     restart_requested |-> FALSE,
     stop_requested |-> FALSE,
     run_now_requested |-> FALSE,
     run_source_ids |-> none_list,
     run_user_id |-> Null,
     process_ai_requested |-> FALSE,
     auto_prepare_requested |-> FALSE,
     auto_publish_requested |-> FALSE,
     curate_now_requested |-> FALSE,
     curate_dry_run |-> FALSE]

\* a list is falsy when it is None or empty
falsy_list(x) == x.none \/ x.list = <<>>

\* the request_* methods: the flag, the parameters and the log line of each
request_restart(c) == [c EXCEPT !.restart_requested = TRUE]
\* a stop that ends the service from the handler
request_stop_at_once(c) ==
    [c EXCEPT !.stop_requested = TRUE, !.status = "stopped"]
request_stop(c) == [c EXCEPT !.stop_requested = TRUE]
\* a request that drops its user_id
request_run_now_without_user(c, source_ids, user_id) ==
    [c EXCEPT !.run_now_requested = TRUE,
              !.run_source_ids = source_ids]
request_run_now(c, source_ids, user_id) ==
    [c EXCEPT !.run_now_requested = TRUE,
              !.run_source_ids = source_ids,
              !.run_user_id = user_id]
request_process_ai(c) == [c EXCEPT !.process_ai_requested = TRUE]
request_auto_prepare(c) == [c EXCEPT !.auto_prepare_requested = TRUE]
request_auto_publish(c) == [c EXCEPT !.auto_publish_requested = TRUE]
request_curate(c, dry_run) ==
    [c EXCEPT !.curate_now_requested = TRUE, !.curate_dry_run = dry_run]

\* ---- the service loop (scraper_service.py main) -------------------------
\* The loop is one coroutine.  sched.pc is its position: "top" (the while
\* test), the tests of the scheduled part ("scrape?", "scraped", "ai?",
\* "prep?", "pub?", "ai_done", "curate?", "end"), "stage" (suspended in an
\* awaited stage), "sleep" and "stopped".  sched.running holds the stages
\* that have begun and not returned.  sched.iter is a history field: the
\* commands pending when the iteration began, the command it took and the
\* stages of which an attempt failed in it.  sched.attempt is the local of
\* get_db_connection in the stage in flight: the connection attempts that
\* failed so far.  The loop's own log lines are not recorded in logs.

\* a time of the loop is a set: empty for datetime.min, else {t}
datetime_min == {}
at(t) == {t}

Commands ==
    {"run_now", "restart", "process_ai", "auto_prepare", "auto_publish",
     "curate"}

Stages ==
    {"run_scraping", "prepare_for_ai", "process_ai", "auto_prepare",
     "auto_publish", "curate_news"}

\* the flag each command is requested with
requested(c, cmd) ==
    CASE cmd = "run_now" -> c.run_now_requested
      [] cmd = "restart" -> c.restart_requested
      [] cmd = "process_ai" -> c.process_ai_requested
      [] cmd = "auto_prepare" -> c.auto_prepare_requested
      [] cmd = "auto_publish" -> c.auto_publish_requested
      [] cmd = "curate" -> c.curate_now_requested

PendingCommands(c) == {cmd \in Commands : requested(c, cmd)}

NewIteration(c) ==
    [pending |-> PendingCommands(c), command |-> Null, failed |-> {}]

NewSched ==
    [pc |-> "top",
     shutdown_requested |-> FALSE,
     t0 |-> 0,
     last_scrape |-> datetime_min,
     last_ai_process |-> datetime_min,
     last_curate |-> datetime_min,
     running |-> {},
     after |-> Null,
     on_error |-> Null,
     source_ids |-> none_list,
     sources |-> none_list,
     dry_run |-> FALSE,
     user_id |-> Null,
     attempt |-> 0,
     iter |-> [pending |-> {}, command |-> Null, failed |-> {}]]

\* a command endpoint: the request_* method changes the controller and logs
\* one line; the handler then answers.  Nothing else is written.  The
\* handlers run in the event loop of main: while main is suspended in a
\* stage or asleep, or has not entered its loop yet.
endpoint(new_controller, message, level) ==
    /\ Len(logs.log_buffer) < MaxLog
    /\ sched.pc \in {"stage", "sleep"} \/ sched = NewSched
    /\ controller' = new_controller
    /\ logs' = add_log(logs, message, level)
    /\ last_op' = [name |-> "command", message |-> message]
    /\ UNCHANGED <<urlVars, curVars, pipeVars, now, scraping_items, next_id,
                   inflight, sched, notifier>>

\* a command endpoint that does not touch CONFIG_FILE
command_endpoint(new_controller, message, level) ==
    /\ endpoint(new_controller, message, level)
    /\ UNCHANGED config_file

handle_restart ==
    command_endpoint(request_restart(controller),
                     "Restart requested via API", "WARN")
handle_stop ==
    command_endpoint(request_stop(controller),
                     "Stop requested via API", "WARN")
handle_run_now(source_ids, user_id) ==
    command_endpoint(request_run_now(controller, source_ids, user_id),
                     IF falsy_list(source_ids)
                     THEN "Immediate run requested for all active sources"
                     ELSE "Immediate run requested for selected source(s)",
                     "INFO")
handle_process_ai ==
    command_endpoint(request_process_ai(controller),
                     "AI processing requested via API", "INFO")
handle_auto_prepare ==
    command_endpoint(request_auto_prepare(controller),
                     "Auto-prepare requested via API", "INFO")
handle_auto_publish ==
    command_endpoint(request_auto_publish(controller),
                     "Auto-publish requested via API", "INFO")
handle_curate(dry_run) ==
    command_endpoint(request_curate(controller, dry_run),
                     IF dry_run THEN "News curation requested (dry run)"
                     ELSE "News curation requested (publish)", "INFO")

\* update_config via PUT /config: the known keys of the body are assigned
update_config(c, new_config) ==
    [c EXCEPT !.config =
        [k \in DOMAIN c.config |->
            IF k \in DOMAIN new_config THEN new_config[k] ELSE c.config[k]]]

\* _save_config: json.dump(self.config) into CONFIG_FILE
save_config(c) == c.config

\* PUT /config: update_config assigns, saves and logs
handle_put_config(new_config) ==
    /\ endpoint(update_config(controller, new_config),
                "Configuration updated", "INFO")
    /\ config_file' = save_config(update_config(controller, new_config))

\* the name a stage shows in controller.current_task while it runs
task_name(stage) ==
    CASE stage = "run_scraping" -> "Scraping"
      [] stage = "prepare_for_ai" -> "Preparing for AI"
      [] stage = "process_ai" -> "AI Processing"
      [] stage = "auto_prepare" -> "Auto-Prepare"
      [] stage = "auto_publish" -> "Auto-Publish"
      [] stage = "curate_news" -> "Curacion de noticias"

\* a call that is not awaited: the stage starts and the loop goes on
begin_detached(s, stage, after, on_error) ==
    [s EXCEPT !.pc = after,
              !.running = @ \cup {stage}]

\* await stage(...): the stage starts and the loop is suspended in it until
\* it returns (to `after`) or raises (to `on_error`)
begin_stage(s, stage, after, on_error) ==
    [s EXCEPT !.pc = "stage",
              !.running = @ \cup {stage},
              !.after = after,
              !.on_error = on_error]

\* minutes_since >= interval, with datetime.min for "never"
is_due(t0, last, interval) ==
    last = datetime_min \/ \E t \in last : t0 - t >= interval

stop_seen == sched.shutdown_requested \/ controller.stop_requested

SchedFrame ==
    UNCHANGED <<urlVars, curVars, now, scraping_items, next_id, inflight,
                publications, gate_pass, gate_log, publish_pass,
                ready_since, logs, notifier, config_file>>

\* while not shutdown_requested and not controller.stop_requested: ... then
\* the chain of command tests; the first requested command is taken, its
\* flag and parameters are cleared, and its stage is awaited
command_order ==
    <<"run_now", "restart", "process_ai", "auto_prepare", "auto_publish",
      "curate">>

command_order_reversed ==
    <<"curate", "auto_publish", "auto_prepare", "process_ai", "restart",
      "run_now">>

first_command_reversed(c) ==
    LET hits == {i \in DOMAIN command_order_reversed :
                    requested(c, command_order_reversed[i])}
    IN IF hits = {} THEN Null ELSE command_order_reversed[CHOOSE i \in hits : \A j \in hits : i <= j]

first_command(c) ==
    LET hits == {i \in DOMAIN command_order : requested(c, command_order[i])}
    IN IF hits = {} THEN Null ELSE command_order[CHOOSE i \in hits : \A j \in hits : i <= j]

\* the flag and the parameters of a command, cleared as the loop takes it
take_command(c, cmd) ==
    CASE cmd = "run_now" ->
            [c EXCEPT !.run_now_requested = FALSE,
                      !.run_source_ids = none_list,
                      !.run_user_id = Null]
      [] cmd = "restart" -> [c EXCEPT !.restart_requested = FALSE]
      [] cmd = "process_ai" -> [c EXCEPT !.process_ai_requested = FALSE]
      [] cmd = "auto_prepare" -> [c EXCEPT !.auto_prepare_requested = FALSE]
      [] cmd = "auto_publish" -> [c EXCEPT !.auto_publish_requested = FALSE]
      [] cmd = "curate" ->
            [c EXCEPT !.curate_now_requested = FALSE,
                      !.curate_dry_run = FALSE]

\* the stage a command starts with, and where the loop goes when it returns
first_stage(cmd) ==
    CASE cmd = "run_now" -> "run_scraping"
      [] cmd = "process_ai" -> "prepare_for_ai"
      [] cmd = "auto_prepare" -> "auto_prepare"
      [] cmd = "auto_publish" -> "auto_publish"
      [] cmd = "curate" -> "curate_news"

after_first_stage(cmd) ==
    CASE cmd = "run_now" -> "run_now_done"
      [] cmd = "process_ai" -> "cmd_prepared"
      [] cmd = "auto_prepare" -> "top"
      [] cmd = "auto_publish" -> "top"
      [] cmd = "curate" -> "curate_done"

loop_top ==
    /\ sched.pc = "top"
    /\ IF stop_seen
       THEN /\ controller' = [controller EXCEPT !.status = "stopped"]
            /\ sched' = [sched EXCEPT !.pc = "stopped"]
       ELSE LET cmd == first_command(controller)
                s == [sched EXCEPT !.t0 = now,
                                   !.iter = [NewIteration(controller)
                                               EXCEPT !.command = cmd],
                                   !.source_ids = controller.run_source_ids,
                                   !.user_id = controller.run_user_id,
                                   !.dry_run = controller.curate_dry_run]
            IN CASE cmd = Null ->
                      /\ controller' = controller
                      /\ sched' = [s EXCEPT !.pc = "scrape?"]
                 [] cmd = "restart" ->
                      /\ controller' = take_command(controller, cmd)
                      /\ sched' = [s EXCEPT !.last_scrape = datetime_min,
                                            !.last_ai_process = datetime_min]
                 [] OTHER ->
                      /\ controller' =
                            [take_command(controller, cmd)
                               EXCEPT !.current_task =
                                          task_name(first_stage(cmd))]
                      /\ sched' = begin_stage(s, first_stage(cmd),
                                              after_first_stage(cmd), "top")
    /\ last_op' = [name |-> "loop_top"]
    /\ UNCHANGED scraping_sources
    /\ SchedFrame

\* ---- the scrape stage and the sources table -----------------------------
\* In the service runs scraping_sources holds rows [id, is_active,
\* consecutive_errors, max_consecutive_errors, last_scrape_message]; the
\* names are ordered as the ids.

\* ORDER BY name
OrderByName(ids) ==
    CHOOSE q \in [1..Cardinality(ids) -> ids] :
        \A i, j \in 1..Cardinality(ids) : i < j => q[i] < q[j]

get_active_sources(sources, source_ids) ==
    IF ~source_ids.none
    THEN IF Len(source_ids.list) = 0
         THEN <<>>
         ELSE OrderByName({ss.id : ss \in
                 {r \in sources : r.id \in Range(source_ids.list)}})
    ELSE OrderByName({ss.id : ss \in {r \in sources : r.is_active}})

\* update_source_stats: the counter, then the auto-disable UPDATE
update_source_stats(sources, source_id, status) ==
    LET counted(ss) ==
            IF status = "success"
            THEN [ss EXCEPT !.consecutive_errors = 0,
                            !.last_scrape_message = status]
            ELSE [ss EXCEPT !.consecutive_errors = @ + 1,
                            !.last_scrape_message = status]
        disabled(ss) ==
            IF ss.consecutive_errors >= ss.max_consecutive_errors
            THEN [ss EXCEPT !.is_active = FALSE,
                            !.last_scrape_message = "Auto-disabled"]
            ELSE ss
    IN {IF ss.id = source_id THEN disabled(counted(ss)) ELSE ss :
            ss \in sources}

ScrapeOutcomes == {"success", "error"}

\* triggered_by = "manual" if source_ids else "automatic"
triggered_by(source_ids) ==
    IF falsy_list(source_ids) THEN "automatic" ELSE "manual"

\* the rows run_scraping inserts into scraping_runs: none when no source
\* was found (return 0), else one
scraping_runs_of(sources, source_ids) ==
    IF sources = <<>>
    THEN {}
    ELSE {[status |-> "running",
           triggered_by |-> triggered_by(source_ids),
           sources_processed |-> sources]}

\* sources = await get_active_sources(conn, source_ids), and the
\* INSERT INTO scraping_runs
scrape_select ==
    /\ "run_scraping" \in sched.running
    /\ sched.sources.none
    /\ sched' = [sched EXCEPT !.sources =
                    some_list(get_active_sources(scraping_sources,
                                                 sched.source_ids))]
    /\ last_op' =
          [name |-> "scrape_select",
           scraping_runs |->
               scraping_runs_of(get_active_sources(scraping_sources,
                                                   sched.source_ids),
                                sched.source_ids)]
    /\ UNCHANGED <<controller, scraping_sources>>
    /\ SchedFrame

\* one turn of `for source in sources`: the stop test, the scraper, the stats
scrape_source(status) ==
    /\ "run_scraping" \in sched.running
    /\ ~sched.sources.none
    /\ sched.sources.list # <<>>
    /\ ~stop_seen
    /\ \A ss \in scraping_sources :
          ss.id = Head(sched.sources.list) /\ status # "success"
              => ss.consecutive_errors < MaxErrors
    /\ LET source_id == Head(sched.sources.list)
       IN /\ scraping_sources' =
                 update_source_stats(scraping_sources, source_id, status)
          /\ last_op' = [name |-> "scrape_source", id |-> source_id,
                         status |-> status,
                         command |-> sched.iter.command]
    /\ sched' = [sched EXCEPT !.sources.list = Tail(@)]
    /\ UNCHANGED controller
    /\ SchedFrame

\* a stage returns: the loop resumes after the await
stage_return(stage) ==
    /\ stage \in sched.running
    /\ stage = "run_scraping" =>
          /\ ~sched.sources.none
          /\ sched.sources.list = <<>> \/ stop_seen
    /\ sched' = [sched EXCEPT
                    !.running = @ \ {stage},
                    !.attempt = 0,
                    !.sources = IF stage = "run_scraping" THEN none_list ELSE @,
                    !.pc = IF @ = "stage" THEN sched.after ELSE @]
    /\ controller' = [controller EXCEPT !.current_task = Null]
    /\ last_op' = [name |-> "stage_return", stage |-> stage]
    /\ UNCHANGED scraping_sources
    /\ SchedFrame

\* run_scraping and prepare_for_ai let a database error through to the
\* loop's except clause; the other stages catch their own
RaisingStages == {"run_scraping", "prepare_for_ai"}

stage_raise(stage) ==
    /\ stage \in sched.running \cap RaisingStages
    /\ stage = "run_scraping" => sched.sources.none
    /\ sched' = [sched EXCEPT
                    !.running = @ \ {stage},
                    !.attempt = 0,
                    !.iter.failed = @ \cup {stage},
                    !.pc = IF @ = "stage" THEN sched.on_error ELSE @]
    /\ controller' = [controller EXCEPT !.current_task = Null]
    /\ last_op' = [name |-> "stage_raise", stage |-> stage]
    /\ UNCHANGED scraping_sources
    /\ SchedFrame

\* process_ai wraps its body in try / except Exception: the error of an
\* attempt (the module's main raised, or could not reach the database and
\* returned) is logged and the call returns to the loop like any other
CatchingStages == {"process_ai"}

stage_error(stage) ==
    /\ stage \in sched.running \cap CatchingStages
    /\ sched' = [sched EXCEPT
                    !.running = @ \ {stage},
                    !.iter.failed = @ \cup {stage},
                    !.pc = IF @ = "stage" THEN sched.after ELSE @]
    /\ controller' = [controller EXCEPT !.current_task = Null]
    /\ last_op' = [name |-> "stage_error", stage |-> stage]
    /\ UNCHANGED scraping_sources
    /\ SchedFrame

\* ---- the rest of an iteration -------------------------------------------

\* a step of the loop that starts a stage, or moves on without one
await_or_skip(start, stage, after, on_error, otherwise) ==
    IF start
    THEN /\ sched' = begin_stage(sched, stage, after, on_error)
         /\ controller' = [controller EXCEPT !.current_task = task_name(stage)]
    ELSE /\ sched' = [sched EXCEPT !.pc = otherwise]
         /\ controller' = controller

\* process-ai command: await prepare_for_ai() has returned, await process_ai()
command_process_ai ==
    /\ sched.pc = "cmd_prepared"
    /\ await_or_skip(TRUE, "process_ai", "cmd_ai_done", "top", "top")
    /\ last_op' = [name |-> "command_process_ai"]
    /\ UNCHANGED scraping_sources
    /\ SchedFrame

\* if scrape_enabled: if minutes_since_scrape >= scrape_interval:
\*     await run_scraping(config_source_ids)
check_scrape ==
    /\ sched.pc = "scrape?"
    /\ LET start == /\ controller.config.scrape_enabled
                    /\ is_due(sched.t0, sched.last_scrape,
                              controller.config.scrape_interval_minutes)
           s == [sched EXCEPT
                    !.source_ids = controller.config.selected_source_ids]
       IN IF start
          THEN /\ sched' = begin_stage(s, "run_scraping", "scraped", "ai?")
               /\ controller' =
                     [controller EXCEPT
                         !.current_task = task_name("run_scraping")]
          ELSE /\ sched' = [sched EXCEPT !.pc = "ai?"]
               /\ controller' = controller
    /\ last_op' = [name |-> "check_scrape"]
    /\ UNCHANGED scraping_sources
    /\ SchedFrame

\*     await prepare_for_ai()
scheduled_prepare_for_ai ==
    /\ sched.pc = "scraped"
    /\ await_or_skip(TRUE, "prepare_for_ai", "prepared", "ai?", "ai?")
    /\ last_op' = [name |-> "scheduled_prepare_for_ai"]
    /\ UNCHANGED scraping_sources
    /\ SchedFrame

\* if ai_enabled: if minutes_since_ai >= ai_interval: await process_ai()
check_ai ==
    /\ sched.pc = "ai?"
    /\ await_or_skip(/\ controller.config.ai_process_enabled
                     /\ is_due(sched.t0, sched.last_ai_process,
                               controller.config.ai_process_interval_minutes),
                     "process_ai", "prep?", "curate?", "curate?")
    /\ last_op' = [name |-> "check_ai"]
    /\ UNCHANGED scraping_sources
    /\ SchedFrame

\*     if auto_prepare_enabled: await auto_prepare()
check_auto_prepare ==
    /\ sched.pc = "prep?"
    /\ await_or_skip(controller.config.auto_prepare_enabled,
                     "auto_prepare", "pub?", "curate?", "pub?")
    /\ last_op' = [name |-> "check_auto_prepare"]
    /\ UNCHANGED scraping_sources
    /\ SchedFrame

\*     if auto_publish_enabled: await auto_publish()
check_auto_publish ==
    /\ sched.pc = "pub?"
    /\ await_or_skip(controller.config.auto_publish_enabled,
                     "auto_publish", "ai_done", "curate?", "ai_done")
    /\ last_op' = [name |-> "check_auto_publish"]
    /\ UNCHANGED scraping_sources
    /\ SchedFrame

\* if curator_enabled: if minutes_since_curate >= curator_interval:
\*     await curate_news(dry_run=False)
check_curate ==
    /\ sched.pc = "curate?"
    /\ await_or_skip(/\ controller.config.curator_enabled
                     /\ is_due(sched.t0, sched.last_curate,
                               controller.config.curator_interval_minutes),
                     "curate_news", "curated", "end", "end")
    /\ last_op' = [name |-> "check_curate"]
    /\ UNCHANGED scraping_sources
    /\ SchedFrame

\* last_scrape / last_ai_process / last_curate = datetime.now() after the
\* stages of a branch returned, and the `continue` of a command
stamp ==
    /\ sched.pc \in {"run_now_done", "cmd_ai_done", "curate_done",
                     "prepared", "ai_done", "curated"}
    /\ sched' =
          CASE sched.pc = "run_now_done" ->
                  [sched EXCEPT !.last_scrape = at(now), !.pc = "top"]
            [] sched.pc = "cmd_ai_done" ->
                  [sched EXCEPT !.last_ai_process = at(now), !.pc = "top"]
            [] sched.pc = "curate_done" ->
                  [sched EXCEPT
                      !.last_curate = IF sched.dry_run THEN @ ELSE at(now),
                      !.pc = "top"]
            [] sched.pc = "prepared" ->
                  [sched EXCEPT !.last_scrape = at(now), !.pc = "ai?"]
            [] sched.pc = "ai_done" ->
                  [sched EXCEPT !.last_ai_process = at(now), !.pc = "curate?"]
            [] sched.pc = "curated" ->
                  [sched EXCEPT !.last_curate = at(now), !.pc = "end"]
    /\ last_op' = [name |-> "stamp"]
    /\ UNCHANGED <<controller, scraping_sources>>
    /\ SchedFrame

\* if not shutdown_requested and not controller.stop_requested:
\*     await asyncio.sleep(60)
loop_end ==
    /\ sched.pc = "end"
    /\ sched' = [sched EXCEPT !.pc = IF stop_seen THEN "top" ELSE "sleep"]
    /\ last_op' = [name |-> "loop_end"]
    /\ UNCHANGED <<controller, scraping_sources>>
    /\ SchedFrame

\* the sleep is over; the clock is coarse and may not have moved
wake ==
    /\ sched.pc = "sleep"
    /\ sched' = [sched EXCEPT !.pc = "top"]
    /\ last_op' = [name |-> "wake"]
    /\ UNCHANGED <<controller, scraping_sources>>
    /\ SchedFrame

\* SIGTERM / SIGINT
signal_handler ==
    /\ ~sched.shutdown_requested
    /\ sched' = [sched EXCEPT !.shutdown_requested = TRUE]
    /\ controller' = [controller EXCEPT !.stop_requested = TRUE]
    /\ last_op' = [name |-> "signal_handler"]
    /\ UNCHANGED scraping_sources
    /\ SchedFrame

\* the steps of the loop and of the stage it awaits
loop_step ==
    \/ loop_top
    \/ check_scrape
    \/ scheduled_prepare_for_ai
    \/ check_ai
    \/ check_auto_prepare
    \/ check_auto_publish
    \/ check_curate
    \/ stamp
    \/ loop_end
    \/ wake
    \/ scrape_select
    \/ \E stage \in Stages : stage_return(stage)
    \/ \E stage \in RaisingStages : stage_raise(stage)

\* ---- the service under the control API ----------------------------------

SourceIdLists == {none_list, some_list(<<1>>)}
ConfigBodies ==
    {[ai_process_enabled |-> FALSE],
     [auto_prepare_enabled |-> FALSE],
     [curator_enabled |-> TRUE],
     [selected_source_ids |-> some_list(<<1, 2>>)]}

SourceRow(id, max_consecutive_errors) ==
    [id |-> id,
     is_active |-> TRUE,
     consecutive_errors |-> 0,
     max_consecutive_errors |-> max_consecutive_errors,
     last_scrape_message |-> ""]

InitService ==
    /\ url_u = <<>>
    /\ url_v = <<>>
    /\ CuratorIdle
    /\ now = 0
    /\ scraping_items = <<>>
    /\ next_id = 0
    /\ inflight = {}
    /\ last_op = NoOp
    /\ publications = <<>>
    /\ gate_pass = NoPass
    /\ gate_log = <<>>
    /\ publish_pass = NoPass
    /\ ready_since = <<>>
    /\ scraping_sources = {SourceRow(1, 1), SourceRow(2, MaxErrors)}
    /\ controller = NewController(default_config)
    /\ sched = NewSched
    /\ logs = [log_buffer |-> <<>>, log_subscribers |-> <<>>]
    /\ notifier = NoNotifier
    /\ config_file = save_config(controller)

control_api ==
    \/ handle_restart
    \/ handle_stop
    \/ \E source_ids \in SourceIdLists : handle_run_now(source_ids, Null)
    \/ handle_process_ai
    \/ handle_auto_prepare
    \/ handle_auto_publish
    \/ \E dry_run \in BOOLEAN : handle_curate(dry_run)

\* the service driven by commands; the clock stands still, so a scheduled
\* stage is due in the first iteration and after a restart
NextService ==
    \/ loop_step
    \/ command_process_ai
    \/ \E status \in ScrapeOutcomes : scrape_source(status)
    \/ control_api

SpecService == InitService /\ [][NextService]_vars

\* ---- the service on its schedule ----------------------------------------

SelectedLists == {none_list, some_list(<<1, 2>>)}

InitSchedule ==
    /\ url_u = <<>>
    /\ url_v = <<>>
    /\ CuratorIdle
    /\ now = 0
    /\ scraping_items = <<>>
    /\ next_id = 0
    /\ inflight = {}
    /\ last_op = NoOp
    /\ publications = <<>>
    /\ gate_pass = NoPass
    /\ gate_log = <<>>
    /\ publish_pass = NoPass
    /\ ready_since = <<>>
    /\ scraping_sources = {SourceRow(1, 1), SourceRow(2, MaxErrors)}
    /\ \E source_ids \in SelectedLists :
         controller =
             NewController([default_config
                              EXCEPT !.selected_source_ids = source_ids])
    /\ sched = NewSched
    /\ logs = [log_buffer |-> <<>>, log_subscribers |-> <<>>]
    /\ notifier = NoNotifier
    /\ config_file = save_config(controller)

NextSchedule ==
    \/ Elapse
    \/ loop_step
    \/ \E status \in ScrapeOutcomes : scrape_source(status)
    \/ \E new_config \in ConfigBodies : handle_put_config(new_config)

SpecSchedule == InitSchedule /\ [][NextSchedule]_vars

\* a step that scrapes the next source of a scheduled cycle
ScrapesOnSchedule ==
    /\ "run_scraping" \in sched.running
    /\ sched.iter.command = Null
    /\ ~sched.sources.none
    /\ sched.sources.list # <<>>
    /\ ~sched'.sources.none
    /\ sched'.sources.list = Tail(sched.sources.list)

AutoDisabled(ss) ==
    ~ss.is_active /\ ss.last_scrape_message = "Auto-disabled"

\* C12: a source that reached max_consecutive_errors consecutive failed
\* cycles is inactive, and a scheduled scrape cycle never runs a source that
\* was auto-disabled (nobody re-activates a source here), whether
\* selected_source_ids is null or an explicit list.
C12_DisabledSourceIsNotScraped ==
    [][/\ \A ss \in scraping_sources :
             ss.consecutive_errors >= ss.max_consecutive_errors
                 => ~ss.is_active
       /\ ScrapesOnSchedule =>
             \A ss \in scraping_sources :
                 ss.id = Head(sched.sources.list) => ~AutoDisabled(ss)]_vars

\* ---- retries of the enrichment ------------------------------------------

InitRetry ==
    /\ url_u = <<>>
    /\ url_v = <<>>
    /\ CuratorIdle
    /\ CtlIdle
    /\ now = 0
    /\ scraping_items =
           (1 :> ScrapedRow(1, "lagaceta", GoodContent, TitleA, 0))
           @@ (2 :> ScrapedRow(2, "infobae", GoodContent, TitleB, 0))
    /\ next_id = 2
    /\ inflight = {}
    /\ last_op = NoOp
    /\ PipeIdle

\* PATCH {"status": "error"}
update_scraping_item_error ==
    \E item_id \in Ids :
        /\ scraping_items[item_id].retry_count < MaxRetryCount
        /\ update_scraping_item(item_id, [status |-> "error"])

NextRetry ==
    \/ \E item_id \in Ids, r \in {GoodResponse, AiFailure} :
          process_single_item(item_id, r)
    \/ \E item_id \in Ids : process_single_item_not_stored(item_id)
    \/ update_scraping_item_error
    \/ update_scraping_item_status

SpecRetry == InitRetry /\ [][NextRetry]_vars

\* a step in which an enrichment attempt on an item failed
FailedEnrichment == last_op'.name = "enrich" /\ last_op'.failed

\* C13: every failure adds exactly 1 to the item's retry_count (a failed
\* enrichment attempt, or a status update to error), and an enrichment
\* attempt is only made on an item whose retry_count < max_retries; so an
\* item gets at most max_retries failed enrichment attempts.
C13_EveryFailureCounts ==
    [][/\ FailedEnrichment =>
             LET id == last_op'.id IN
             /\ scraping_items[id].retry_count < max_retries
             /\ scraping_items'[id].retry_count =
                    scraping_items[id].retry_count + 1
       /\ last_op'.name = "patch" =>
             \A id \in Ids :
                 (scraping_items'[id].status = "error"
                  /\ scraping_items'[id] # scraping_items[id])
                     => scraping_items'[id].retry_count =
                            scraping_items[id].retry_count + 1]_vars

\* ---- the lifecycle of an item under the stages and the bulk operation ----

PREPARE_HOURS_AGO == 24

\* prepare_for_ai (scraper_service.py): one UPDATE of the recent scraped rows
prepare_for_ai ==
    /\ scraping_items' =
           [i \in Ids |->
               IF /\ scraping_items[i].status = "scraped"
                  /\ scraping_items[i].scraped_at >= now - PREPARE_HOURS_AGO
               THEN update_item_status(scraping_items[i], "ready_for_ai",
                                       Msg("auto_prepared"))
               ELSE scraping_items[i]]
    /\ last_op' = [name |-> "prepare_for_ai"]
    /\ UNCHANGED <<urlVars, curVars, ctlVars, pipeVars, now, next_id, inflight>>

\* the rows of one content_hash, and those scraped first among them
RowsWithContentHash(h) == {i \in Ids : scraping_items[i].content_hash = h}

FirstScraped(group) ==
    {i \in group :
        \A j \in group :
            scraping_items[i].scraped_at <= scraping_items[j].scraped_at}

\* POST /bulk/mark-duplicates: in every group of rows with one content_hash
\* the first scraped is kept (keep chooses it where scraped_at ties) and the
\* others that are not duplicate yet are set to duplicate
mark_duplicates ==
    \E keep \in [Ids -> Ids] :
        /\ \A i \in Ids :
              keep[i] \in FirstScraped(
                  RowsWithContentHash(scraping_items[i].content_hash))
        /\ \A i, j \in Ids :
              scraping_items[i].content_hash = scraping_items[j].content_hash
                  => keep[i] = keep[j]
        /\ scraping_items' =
               [i \in Ids |->
                   IF keep[i] # i /\ scraping_items[i].status # "duplicate"
                   THEN [scraping_items[i] EXCEPT
                            !.status = "duplicate",
                            !.status_message = Msg("duplicate_of_item")]
                   ELSE scraping_items[i]]
        /\ last_op' = [name |-> "mark_duplicates"]
        /\ UNCHANGED <<urlVars, curVars, ctlVars, pipeVars, now, next_id,
                       inflight>>

LifecycleResponses == {[GoodResponse EXCEPT !.title = t] : t \in {TitleA, TitleB}}

\* two rows with the same text, scraped at hours 0 and 1; their source
\* publishes automatically and at once
InitLifecycle ==
    /\ url_u = <<>>
    /\ url_v = <<>>
    /\ CuratorIdle
    /\ CtlIdle
    /\ now = 1
    /\ scraping_items =
           (1 :> ScrapedRow(1, "lagaceta", GoodContent, TitleA, 0))
           @@ (2 :> ScrapedRow(2, "lagaceta", GoodContent, TitleB, 1))
    /\ next_id = 2
    /\ inflight = {}
    /\ last_op = NoOp
    /\ publications = <<>>
    /\ scraping_sources =
           {[slug |-> "lagaceta", auto_publish |-> TRUE,
             auto_publish_delay_minutes |-> 0]}
    /\ gate_pass = NoPass
    /\ gate_log = <<>>
    /\ publish_pass = NoPass
    /\ ready_since = <<>>

NextLifecycle ==
    \/ prepare_for_ai
    \/ \E item_id \in Ids, r \in LifecycleResponses \cup {AiFailure} :
          process_single_item(item_id, r)
    \/ auto_prepare_start
    \/ auto_prepare_process_item
    \/ auto_prepare_cleanup
    \/ auto_publish_start
    \/ auto_publish_process_item
    \/ mark_duplicates

SpecLifecycle == InitLifecycle /\ [][NextLifecycle]_vars

\* the lifecycle: scraped, ready_for_ai, ai_completed, then ready_to_publish
\* / discarded / duplicate, then published; expired after ready_to_publish
\* or ai_completed
LifecycleRank(status) ==
    CASE status = "scraped" -> 0
      [] status = "ready_for_ai" -> 1
      [] status = "ai_completed" -> 2
      [] status \in {"ready_to_publish", "discarded", "duplicate"} -> 3
      [] status = "published" -> 4
      [] OTHER -> 5

MovesForward(old, new) ==
    IF new = "expired" THEN old \in {"ready_to_publish", "ai_completed"}
    ELSE /\ old # "expired"
         /\ LifecycleRank(new) <= 4
         /\ LifecycleRank(old) < LifecycleRank(new)

\* C14: a status change made by a stage or by the bulk operation moves the
\* item forward along the lifecycle; none moves it back, and none changes a
\* row that is published.
C14_StagesOnlyMoveForward ==
    [][\A i \in Ids \cap DOMAIN scraping_items' :
          /\ scraping_items'[i].status # scraping_items[i].status
                => MovesForward(scraping_items[i].status,
                                scraping_items'[i].status)
          /\ scraping_items[i].status = "published"
                => scraping_items'[i] = scraping_items[i]]_vars

\* ---- claims on the service loop ------------------------------------------

\* C15: at most one pipeline stage is executing at any moment, across the
\* scheduled part and the manual commands; a stage, manual or scheduled,
\* starts only when no other is running.
C15_OneStageAtATime ==
    /\ Cardinality(sched.running) <= 1
    /\ sched.running # {} => sched.pc = "stage"

\* a command was accepted while a stage runs, and waits
C15_Witness ==
    /\ "process_ai" \in sched.running
    /\ sched.iter.command = Null
    /\ "auto_publish" \in PendingCommands(controller)

\* ---- the service and a stop request --------------------------------------

NextStop ==
    \/ Elapse
    \/ loop_step
    \/ command_process_ai
    \/ \E status \in ScrapeOutcomes : scrape_source(status)
    \/ handle_stop
    \/ handle_process_ai
    \/ signal_handler

\* the event loop keeps running the coroutine of main, and a stage that has
\* begun returns or raises
LoopRuns ==
    \/ loop_step
    \/ command_process_ai
    \/ \E status \in ScrapeOutcomes : scrape_source(status)

SpecStop == InitService /\ [][NextStop]_vars /\ WF_vars(LoopRuns)

\* a step in which a stage begins
StageBegins == \E stage \in Stages : stage \in sched'.running \ sched.running

\* C16: after a stop request (POST /stop, SIGTERM or SIGINT) the stage in
\* flight runs to its end, the loop begins no further stage, and the loop
\* ends with status stopped.
C16_StopStartsNothingAndEnds ==
    /\ [][StageBegins => ~stop_seen]_vars
    /\ stop_seen ~> controller.status = "stopped"

\* the order in which the loop is to serve the commands
CommandRank(cmd) ==
    CASE cmd = "run_now" -> 1
      [] cmd = "restart" -> 2
      [] cmd = "process_ai" -> 3
      [] cmd = "auto_prepare" -> 4
      [] cmd = "auto_publish" -> 5
      [] cmd = "curate" -> 6

\* a step that begins an iteration of the loop
IterationBegins == sched.pc = "top" /\ ~stop_seen /\ sched' # sched

\* the positions of the scheduled part of an iteration
ScheduledPoints ==
    {"scrape?", "scraped", "prepared", "ai?", "prep?", "pub?", "ai_done",
     "curate?", "curated", "end", "sleep"}

InScheduledPart ==
    \/ sched.pc \in ScheduledPoints
    \/ sched.pc = "stage" /\ sched.after \in ScheduledPoints

\* C17: an iteration serves at most one pending command, the first in the
\* order run-now, restart, process-ai, auto-prepare, auto-publish, curate;
\* its flag and parameters are cleared before its stage runs; such an
\* iteration runs no scheduled stage and does not sleep; the scheduled part
\* belongs to iterations that began with no command pending.
C17_OneCommandPerIteration ==
    [][/\ IterationBegins =>
             LET pending == PendingCommands(controller)
                 cmd == sched'.iter.command
             IN /\ pending = {} <=> cmd = Null
                /\ cmd # Null =>
                      /\ cmd \in pending
                      /\ \A other \in pending :
                            CommandRank(cmd) <= CommandRank(other)
                      /\ PendingCommands(controller') = pending \ {cmd}
                      /\ cmd = "run_now" =>
                            /\ controller'.run_source_ids = none_list
                            /\ controller'.run_user_id = Null
                            /\ sched'.source_ids = controller.run_source_ids
                      /\ cmd = "curate" =>
                            /\ ~controller'.curate_dry_run
                            /\ sched'.dry_run = controller.curate_dry_run
                      /\ cmd # "restart" => sched'.running # {}
                /\ cmd = Null => PendingCommands(controller') = {}
       /\ InScheduledPart =>
             sched.iter.command = Null /\ sched.iter.pending = {}]_vars

\* an iteration that began with two commands pending is serving the first
C17_Witness ==
    /\ sched.iter.pending = {"process_ai", "curate"}
    /\ sched.iter.command = "process_ai"
    /\ sched.running = {"process_ai"}
    /\ controller.curate_now_requested

\* ---- claims on the scheduled part ----------------------------------------

Begins(stage) == stage \in sched'.running \ sched.running

\* the loop takes the step at position pc
Decides(pc) == sched.pc = pc /\ sched' # sched

AiIntervalElapsed ==
    is_due(sched.t0, sched.last_ai_process,
           controller.config.ai_process_interval_minutes)

\* C18: in a scheduled tick each stage runs exactly if its own flag is true
\* and its interval has elapsed (the Quality Gate and the Auto-Publisher on
\* the enrichment interval); the flag of one stage does not keep another
\* enabled stage from running.
C18_EachStageByItsOwnFlag ==
    [][/\ Decides("scrape?") =>
             (Begins("run_scraping") <=>
                 /\ controller.config.scrape_enabled
                 /\ is_due(sched.t0, sched.last_scrape,
                           controller.config.scrape_interval_minutes))
       /\ Decides("ai?") =>
             /\ Begins("process_ai") <=>
                   controller.config.ai_process_enabled /\ AiIntervalElapsed
             /\ (/\ AiIntervalElapsed
                 /\ \/ controller.config.auto_prepare_enabled
                    \/ controller.config.auto_publish_enabled)
                   => sched'.pc = "prep?" \/ sched'.after = "prep?"
       /\ Decides("prep?") =>
             (Begins("auto_prepare") <=> controller.config.auto_prepare_enabled)
       /\ Decides("pub?") =>
             (Begins("auto_publish") <=> controller.config.auto_publish_enabled)
       /\ Decides("curate?") =>
             (Begins("curate_news") <=>
                 /\ controller.config.curator_enabled
                 /\ is_due(sched.t0, sched.last_curate,
                           controller.config.curator_interval_minutes))]_vars

\* ---- claims on the command endpoints -------------------------------------

\* a step in which a command endpoint answered a request
CommandAccepted == last_op'.name = "command" /\ logs' # logs

OldEntry == [level |-> "INFO", message |-> "Next check in 1 minute..."]

LogLines ==
    {[level |-> "INFO", message |-> "Starting AI processing"],
     [level |-> "WARN", message |-> "Stop requested via API"]}

\* a buffer, and a queue, that already hold n entries
Filled(n) == [i \in 1..n |-> OldEntry]
Backlog(n) == [backlog |-> n, entries |-> <<>>]

\* the buffer is empty, or it is full and every subscriber is stuck; the
\* queue of a subscriber that keeps up, of one that is one entry short
\* of the limit, and of one that is stuck at the limit
QueueFills == {0, QUEUE_MAXSIZE - 1, QUEUE_MAXSIZE}

InitLogs ==
    /\ url_u = <<>>
    /\ url_v = <<>>
    /\ CuratorIdle
    /\ StoreIdle
    /\ PipeIdle
    /\ controller = [status |-> "starting"]
    /\ sched = [pc |-> "not started"]
    /\ notifier = NoNotifier
    /\ config_file = NoConfigFile
    /\ \E n \in {0, LOG_BUFFER_MAXLEN},
          fills \in [1..MaxSubscribers -> QueueFills] :
         /\ n = 0 \/ \A i \in 1..MaxSubscribers : fills[i] = QUEUE_MAXSIZE
         /\ logs = [log_buffer |-> Filled(n),
                    log_subscribers |->
                        [i \in 1..MaxSubscribers |-> Backlog(fills[i])]]

LogFrame ==
    UNCHANGED <<urlVars, curVars, pipeVars, now, scraping_items, next_id,
                inflight, controller, sched, notifier, config_file>>

NewEntries(log_buffer) ==
    Cardinality({i \in DOMAIN log_buffer : log_buffer[i] # OldEntry})

\* a call of add_log, from the loop, a stage or a handler
log_line ==
    \E line \in LogLines :
        /\ NewEntries(logs.log_buffer) < MaxLog
        /\ logs' = add_log(logs, line.message, line.level)
        /\ last_op' = [name |-> "add_log", entry |-> line]
        /\ LogFrame

\* handle_logs_stream: queue = asyncio.Queue(maxsize=100); subscribers.append
logs_stream_open ==
    /\ Len(logs.log_subscribers) < MaxSubscribers
    /\ logs' = [logs EXCEPT !.log_subscribers = Append(@, EmptyQueue)]
    /\ last_op' = [name |-> "logs_stream_open"]
    /\ LogFrame

\* handle_logs_stream: log = await queue.get(); a stuck subscriber is
\* followed for MaxGets entries below the limit
logs_stream_get ==
    \E i \in DOMAIN logs.log_subscribers :
        /\ qsize(logs.log_subscribers[i]) > 0
        /\ \/ qsize(logs.log_subscribers[i]) <= MaxLog
           \/ qsize(logs.log_subscribers[i]) > QUEUE_MAXSIZE - MaxGets
        /\ logs' = [logs EXCEPT !.log_subscribers[i] = queue_get(@)]
        /\ last_op' = [name |-> "logs_stream_get"]
        /\ LogFrame

\* handle_logs_stream, finally: controller.log_subscribers.remove(queue).
\* list.remove takes out the first element equal to the queue; the streams'
\* queues are distinct objects, here the one at position i.
logs_stream_close ==
    \E i \in DOMAIN logs.log_subscribers :
        /\ logs' = [logs EXCEPT !.log_subscribers = RemoveAt(@, i)]
        /\ last_op' = [name |-> "logs_stream_close"]
        /\ LogFrame

NextLogs ==
    \/ log_line
    \/ logs_stream_open
    \/ logs_stream_get
    \/ logs_stream_close

SpecLogs == InitLogs /\ [][NextLogs]_vars

\* a step in which add_log ran
AddsLog == last_op'.name = "add_log" /\ logs' # logs

\* C20: add_log goes through whatever the state of the subscribers: the
\* entry is appended to the buffer, a subscriber whose queue is full misses
\* it, and every other subscriber gets it.
C20_FullQueueOnlyCostsItsOwner ==
    [][AddsLog =>
          LET entry == last_op'.entry
              old == logs.log_subscribers
              new == logs'.log_subscribers
          IN /\ logs'.log_buffer # <<>>
             /\ logs'.log_buffer[Len(logs'.log_buffer)] =
                    [level |-> entry.level, message |-> entry.message]
             /\ Len(logs'.log_buffer) <= LOG_BUFFER_MAXLEN
             /\ DOMAIN new = DOMAIN old
             /\ \A i \in DOMAIN old :
                   IF qsize(old[i]) < QUEUE_MAXSIZE
                   THEN /\ new[i].backlog = old[i].backlog
                        /\ new[i].entries = Append(old[i].entries, entry)
                   ELSE new[i] = old[i]]_vars

\* add_log ran with the first subscriber's queue full and the second took
\* the entry
C20_Witness ==
    /\ last_op.name = "add_log"
    /\ Len(logs.log_subscribers) = 2
    /\ logs.log_subscribers[1] = Backlog(QUEUE_MAXSIZE)
    /\ logs.log_subscribers[2].entries # <<>>
    /\ logs.log_subscribers[2].entries[Len(logs.log_subscribers[2].entries)]
           = last_op.entry

\* C21: when add_log meets a subscriber's queue that holds QUEUE_MAXSIZE
\* entries, the oldest pending entry of that queue is discarded and the new
\* entry is enqueued, so the queue ends with the entry just produced.
C21_FullQueueDropsOldest ==
    [][AddsLog =>
          LET entry == last_op'.entry
              old == logs.log_subscribers
              new == logs'.log_subscribers
          IN \A i \in DOMAIN old :
                qsize(old[i]) >= QUEUE_MAXSIZE =>
                    /\ i \in DOMAIN new
                    /\ qsize(new[i]) = QUEUE_MAXSIZE
                    /\ new[i] = put_nowait(queue_get(old[i]), entry)]_vars

\* ------------------------------------------------------------------------
\* Section 6: the Telegram notifier (telegram_notifier.py)
\* ------------------------------------------------------------------------

NOTIFIER_QUEUE_MAXSIZE == 100   \* asyncio.Queue(maxsize=100)

MaxSeconds == 4         \* the notifier's clock runs from 0 to MaxSeconds seconds
MinInterval == 2        \* TELEGRAM_MIN_INTERVAL_SECONDS as configured (default 10)
MaxCalls == 2           \* calls of send_notification
MaxAttempts == 3        \* send attempts of the queue consumer

\* the outcome of bot.send_message: it returns, it raises a TelegramError
\* (TimedOut, NetworkError, ...), or it raises any other exception
SendOutcomes == {"ok", "TelegramError", "Exception"}

\* what a call gives its caller: a value, or an exception
returns(value) == [raised |-> Null, value |-> value]
raises(exception) == [raised |-> exception, value |-> FALSE]

NotificationTexts == {"scrape start", "scrape complete"}
NewMessage(text) == [text |-> text, parse_mode |-> "HTML"]
OldMessage == [text |-> "service event", parse_mode |-> "HTML"]

\* TelegramNotifier.__init__, with the fields of the two kinds of task that
\* run its methods: processor_task, the consumer (_process_queue) and its
\* position, and senders, the callers suspended in a high-priority send.
\* prev_attempt is history: when the consumer's last send attempt ended.
NewNotifier ==
    [enabled |-> TRUE,
     min_interval |-> MinInterval,
     last_send_time |-> datetime_min,
     message_queue |-> EmptyQueue,
     is_running |-> FALSE,
     processor_task |-> [pc |-> "none"],
     stats |-> [sent |-> 0, failed |-> 0, queued |-> 0, dropped |-> 0],
     senders |-> 0,
     stopping |-> FALSE,
     prev_attempt |-> datetime_min]

\* message_queue.full()
queue_full_off_by_one(queue) == qsize(queue) > NOTIFIER_QUEUE_MAXSIZE

queue_full(queue) == qsize(queue) >= NOTIFIER_QUEUE_MAXSIZE

\* message_queue.put(message) on a queue that is not full
queue_put(queue, message) == [queue EXCEPT !.entries = Append(@, message)]

\* the message message_queue.get() hands out
queue_front(queue) ==
    IF queue.backlog > 0 THEN OldMessage ELSE Head(queue.entries)

\* _send_message_safe: True, or False on TelegramError and on any Exception
send_message_telegram_errors_only(outcome) ==
    CASE outcome = "ok" -> returns(TRUE)
      [] outcome = "TelegramError" -> returns(FALSE)
      [] OTHER -> raises(outcome)

send_message_safe(outcome) ==
    CASE outcome = "ok" -> returns(TRUE)
      [] outcome = "TelegramError" -> returns(FALSE)
      [] OTHER -> returns(FALSE)

\* send_notification, normal priority: "if self.message_queue.full()"
enqueue_or_drop(n, message) ==
    IF queue_full(n.message_queue)
    THEN [n EXCEPT !.stats.dropped = @ + 1]
    ELSE [n EXCEPT !.message_queue = queue_put(@, message),
                   !.stats.queued = @ + 1]

\* send_notification, normal priority, as its caller sees it
send_notification_normal(n, message) ==
    IF ~n.enabled
    THEN [notifier |-> n, raised |-> Null]
    ELSE [notifier |-> enqueue_or_drop(n, message), raised |-> Null]

\* send_notification, high priority, from the return of bot.send_message
\* on: an exception of _send_message_safe would be caught by the method's
\* own "except Exception" before stats["sent"] += 1
send_notification_high(n, outcome) ==
    LET r == send_message_safe(outcome)
        left == [n EXCEPT !.senders = @ - 1]
    IN  IF r.raised # Null
        THEN [notifier |-> left, raised |-> Null]
        ELSE [notifier |-> [left EXCEPT !.stats.sent = @ + 1],
              raised |-> Null]

NoteFrame ==
    UNCHANGED <<urlVars, curVars, pipeVars, scraping_items, next_id,
                inflight, controller, sched, logs, config_file>>

\* one second passes
SecondPasses ==
    /\ now < MaxSeconds
    /\ now' = now + 1
    /\ last_op' = [name |-> "second"]
    /\ UNCHANGED notifier
    /\ NoteFrame

\* a caller awaits send_notification(message): normal priority
notify_normal ==
    \E text \in NotificationTexts :
        LET r == send_notification_normal(notifier, NewMessage(text))
        IN  /\ Len(notifier.message_queue.entries) + notifier.stats.dropped
                  < MaxCalls
            /\ notifier' = r.notifier
            /\ last_op' = [name |-> "send_notification",
                           priority |-> "normal",
                           message |-> NewMessage(text),
                           raised |-> r.raised]
            /\ UNCHANGED now
            /\ NoteFrame

\* a caller awaits send_notification(message, priority="high"): it is
\* suspended in bot.send_message
notify_high_begin ==
    /\ notifier.enabled
    /\ notifier.senders < 1
    /\ notifier.stats.sent + notifier.stats.failed < MaxAttempts
    /\ notifier' = [notifier EXCEPT !.senders = @ + 1]
    /\ last_op' = [name |-> "send_notification_begin", priority |-> "high"]
    /\ UNCHANGED now
    /\ NoteFrame

\* bot.send_message ends and the high-priority call returns
notify_high_return ==
    \E outcome \in SendOutcomes :
        LET r == send_notification_high(notifier, outcome)
        IN  /\ notifier.senders > 0
            /\ notifier' = r.notifier
            /\ last_op' = [name |-> "send_notification",
                           priority |-> "high",
                           outcome |-> outcome,
                           raised |-> r.raised]
            /\ UNCHANGED now
            /\ NoteFrame

\* TelegramNotifier.start
start ==
    /\ notifier.enabled
    /\ ~notifier.is_running
    /\ notifier.processor_task.pc = "none"
    /\ notifier' = [notifier EXCEPT !.is_running = TRUE,
                                    !.processor_task = [pc |-> "get"]]
    /\ last_op' = [name |-> "start"]
    /\ UNCHANGED now
    /\ NoteFrame

\* _process_queue: the while test, message_queue.get() and the rate limit.
\* With an empty queue the wait times out and the loop goes round: no change.
process_queue_get ==
    /\ notifier.processor_task.pc = "get"
    /\ IF ~notifier.is_running
       THEN notifier' = [notifier EXCEPT !.processor_task = [pc |-> "done"]]
       ELSE /\ qsize(notifier.message_queue) > 0
            /\ notifier.stats.sent + notifier.stats.failed < MaxAttempts
            /\ LET message == queue_front(notifier.message_queue)
                   early == \E t \in notifier.last_send_time :
                               now - t < notifier.min_interval
                   until == CHOOSE u \in 0..(now + notifier.min_interval) :
                               early =>
                                 \E t \in notifier.last_send_time :
                                    u = t + notifier.min_interval
               IN notifier' =
                    [notifier EXCEPT
                       !.message_queue = queue_get(@),
                       !.processor_task =
                          IF early
                          THEN [pc |-> "sleep", until |-> until,
                                message |-> message]
                          ELSE [pc |-> "send", message |-> message]]
    /\ last_op' = [name |-> "process_queue_get"]
    /\ UNCHANGED now
    /\ NoteFrame

\* _process_queue: asyncio.sleep is over. After sleep(wait_time) the send
\* begins; after the sleep(1) of the exception handler the loop goes round.
process_queue_wake ==
    /\ notifier.processor_task.pc \in {"sleep", "error"}
    /\ now >= notifier.processor_task.until
    /\ notifier' = [notifier EXCEPT !.processor_task =
                       IF @.pc = "sleep"
                       THEN [pc |-> "send", message |-> @.message]
                       ELSE [pc |-> "get"]]
    /\ last_op' = [name |-> "process_queue_wake"]
    /\ UNCHANGED now
    /\ NoteFrame

\* _process_queue: _send_message_safe ends; the counters, last_send_time,
\* task_done; "except Exception" prints and sleeps one second
process_queue_sent ==
    \E outcome \in SendOutcomes :
        LET r == send_message_safe(outcome)
        IN  /\ notifier.processor_task.pc = "send"
            /\ notifier' =
                 IF r.raised # Null
                 THEN [notifier EXCEPT
                         !.processor_task = [pc |-> "error", until |-> now + 1],
                         !.prev_attempt = at(now)]
                 ELSE IF r.value
                 THEN [notifier EXCEPT
                         !.stats.sent = @ + 1,
                         !.last_send_time = at(now),
                         !.processor_task = [pc |-> "get"],
                         !.prev_attempt = at(now)]
                 ELSE [notifier EXCEPT
                         !.stats.failed = @ + 1,
                         !.processor_task = [pc |-> "get"],
                         !.prev_attempt = at(now)]
            /\ last_op' = [name |-> "process_queue_sent", outcome |-> outcome]
            /\ UNCHANGED now
            /\ NoteFrame

\* TelegramNotifier.stop, up to the wait for message_queue.join()
stop ==
    /\ notifier.is_running
    /\ notifier' = [notifier EXCEPT !.is_running = FALSE, !.stopping = TRUE]
    /\ last_op' = [name |-> "stop"]
    /\ UNCHANGED now
    /\ NoteFrame

\* TelegramNotifier.stop: the queue is joined, or five seconds are over;
\* processor_task.cancel()
stop_cancel ==
    /\ notifier.stopping
    /\ notifier' = [notifier EXCEPT
                      !.stopping = FALSE,
                      !.processor_task =
                         IF @.pc = "done" THEN @ ELSE [pc |-> "cancelled"]]
    /\ last_op' = [name |-> "stop_cancel"]
    /\ UNCHANGED now
    /\ NoteFrame

\* the queue is empty and the notifier new, or a first send is in flight
\* and the messages queued behind it are one short of the limit or at it
NotifierFills == {NOTIFIER_QUEUE_MAXSIZE - 1, NOTIFIER_QUEUE_MAXSIZE}

InitNotifier ==
    /\ url_u = <<>>
    /\ url_v = <<>>
    /\ CuratorIdle
    /\ StoreIdle
    /\ PipeIdle
    /\ controller = [status |-> "starting"]
    /\ sched = [pc |-> "not started"]
    /\ logs = [log_buffer |-> <<>>, log_subscribers |-> <<>>]
    /\ config_file = NoConfigFile
    /\ \/ notifier = NewNotifier
       \/ \E fill \in NotifierFills :
             notifier = [NewNotifier EXCEPT
                            !.is_running = TRUE,
                            !.processor_task =
                               [pc |-> "send", message |-> OldMessage],
                            !.message_queue = Backlog(fill),
                            !.stats.queued = fill + 1]

NextNotifier ==
    \/ SecondPasses
    \/ notify_normal
    \/ notify_high_begin
    \/ notify_high_return
    \/ start
    \/ process_queue_get
    \/ process_queue_wake
    \/ process_queue_sent
    \/ stop
    \/ stop_cancel

SpecNotifier == InitNotifier /\ [][NextNotifier]_vars

\* a step in which the consumer begins a send attempt
AttemptBegins ==
    /\ notifier.processor_task.pc # "send"
    /\ notifier'.processor_task.pc = "send"

\* a step in which send_notification ran with normal priority
NormalCall ==
    /\ last_op'.name = "send_notification"
    /\ last_op'.priority = "normal"
    /\ notifier' # notifier

\* C22: when the queue consumer begins a send attempt, at least min_interval
\* has passed since its previous attempt ended, whether that attempt
\* succeeded or failed; a normal-priority send_notification sends nothing
\* itself.
C22_MinIntervalBetweenAttempts ==
    /\ [][AttemptBegins =>
             \A p \in notifier.prev_attempt :
                 now - p >= notifier.min_interval]_vars
    /\ [][NormalCall =>
             /\ notifier'.senders = notifier.senders
             /\ notifier'.stats.sent = notifier.stats.sent
             /\ notifier'.stats.failed = notifier.stats.failed]_vars

\* C23: a normal-priority send_notification returns at once and the queue
\* never holds more than NOTIFIER_QUEUE_MAXSIZE messages: on a full queue
\* the message is dropped, the queue stays as it is and dropped grows by 1;
\* otherwise the message is appended at the tail and queued grows by 1.
C23_EnqueueOrDropOne ==
    /\ [](notifier.enabled =>
             qsize(notifier.message_queue) <= NOTIFIER_QUEUE_MAXSIZE)
    /\ [][NormalCall =>
             LET old == notifier.message_queue
                 new == notifier'.message_queue
             IN /\ last_op'.raised = Null
                /\ IF qsize(old) >= NOTIFIER_QUEUE_MAXSIZE
                   THEN /\ new = old
                        /\ notifier'.stats.dropped = notifier.stats.dropped + 1
                        /\ notifier'.stats.queued = notifier.stats.queued
                   ELSE /\ new.backlog = old.backlog
                        /\ new.entries = Append(old.entries, last_op'.message)
                        /\ notifier'.stats.queued = notifier.stats.queued + 1
                        /\ notifier'.stats.dropped = notifier.stats.dropped
                /\ notifier'.processor_task = notifier.processor_task
                /\ notifier'.last_send_time = notifier.last_send_time]_vars

\* a normal-priority message met a full queue and was dropped
C23_Witness ==
    /\ last_op.name = "send_notification"
    /\ last_op.priority = "normal"
    /\ notifier.stats.dropped = 1
    /\ qsize(notifier.message_queue) = NOTIFIER_QUEUE_MAXSIZE
    /\ notifier.message_queue.entries # <<>>

\* a step in which a high-priority send_notification returned
HighCallReturns ==
    /\ last_op'.name = "send_notification"
    /\ last_op'.priority = "high"
    /\ notifier'.senders = notifier.senders - 1

\* a step in which a send attempt of the consumer ended
AttemptEnds ==
    /\ last_op'.name = "process_queue_sent"
    /\ notifier.processor_task.pc = "send"
    /\ notifier'.processor_task.pc # "send"

\* C24: whatever bot.send_message does, a high-priority send_notification
\* returns normally and leaves the state a successful send leaves; a send
\* attempt of the consumer ends with the consumer back at the queue, still
\* running, the queue untouched; nothing outside the notifier changes.
C24_SendFailuresAreSwallowed ==
    /\ [][HighCallReturns =>
             /\ last_op'.raised = Null
             /\ notifier' = [notifier EXCEPT !.senders = @ - 1,
                                             !.stats.sent = @ + 1]
             /\ UNCHANGED <<now, scraping_items, publications,
                            scraping_sources, controller, sched, logs>>]_vars
    /\ [][AttemptEnds =>
             /\ notifier'.processor_task = [pc |-> "get"]
             /\ notifier'.is_running = notifier.is_running
             /\ notifier'.message_queue = notifier.message_queue
             /\ notifier'.stats.sent + notifier'.stats.failed =
                    notifier.stats.sent + notifier.stats.failed + 1
             /\ UNCHANGED <<now, scraping_items, publications,
                            scraping_sources, controller, sched, logs>>]_vars

\* a high-priority send failed with an exception that is no TelegramError
\* and returned, after an attempt of the consumer had failed and with the
\* consumer sending the next message
C24_Witness ==
    /\ last_op.name = "send_notification"
    /\ last_op.priority = "high"
    /\ last_op.outcome = "Exception"
    /\ last_op.raised = Null
    /\ notifier.stats.failed >= 1
    /\ notifier.processor_task.pc = "send"

\* ------------------------------------------------------------------------
\* Section 7: the expiry sweep of the Quality Gate: specification SpecExpiry
\* ------------------------------------------------------------------------

MaxHours == 26          \* the clock of SpecExpiry runs from 0 to MaxHours hours

\* the clock moves by the expiry bound of ready_to_publish, or by one hour
\* more
HourSteps ==
    {EXPIRE_READY_TO_PUBLISH_HOURS, EXPIRE_READY_TO_PUBLISH_HOURS + 1}

ElapseHours ==
    \E h \in HourSteps :
        /\ now + h <= MaxHours
        /\ now' = now + h
        /\ last_op' = [name |-> "elapse"]
        /\ UNCHANGED <<urlVars, curVars, ctlVars, pipeVars, scraping_items,
                       next_id, inflight>>

\* a title that shares no trigram with TitleA
TitleD ==
    [words |-> <<"lluvias", "intensas", "tucuman">>, body |-> 24,
     pad |-> 0, grams |-> {"llu", "luv", "uvi", "via"}]

\* an answer that passes the Quality Gate and one whose summary is too short
ExpiryResponses == {GoodResponse, [GoodResponse EXCEPT !.summary.body = 49]}

\* two scraped rows with titles that do not resemble each other
InitExpiry ==
    /\ url_u = <<>>
    /\ url_v = <<>>
    /\ CuratorIdle
    /\ CtlIdle
    /\ now = 0
    /\ scraping_items =
           (1 :> ScrapedRow(1, "lagaceta", GoodContent, TitleA, 0))
           @@ (2 :> ScrapedRow(2, "lagaceta", GoodContent, TitleD, 0))
    /\ next_id = 2
    /\ inflight = {}
    /\ last_op = NoOp
    /\ publications = <<>>
    /\ scraping_sources = {}
    /\ gate_pass = NoPass
    /\ gate_log = <<>>
    /\ publish_pass = NoPass
    /\ ready_since = <<>>

NextExpiry ==
    \/ ElapseHours
    \/ \E item_id \in Ids, r \in ExpiryResponses :
          process_single_item(item_id, [r EXCEPT !.title =
                                  IF item_id = 1 THEN TitleA ELSE TitleD])
    \/ auto_prepare_start
    \/ auto_prepare_process_item
    \/ auto_prepare_cleanup

SpecExpiry == InitExpiry /\ [][NextExpiry]_vars

\* a step that ends a run of the Quality Gate
GatePassEnds == last_op'.name \in {"gate_empty", "gate_cleanup"}

\* C25: when a run of the Quality Gate ends, no item is left in
\* ready_to_publish that entered it more than EXPIRE_READY_TO_PUBLISH_HOURS
\* ago, whether or not the run found an ai_completed item to evaluate.
C25_ReadyItemsExpire ==
    [][GatePassEnds =>
          \A i \in DOMAIN scraping_items' :
              scraping_items'[i].status = "ready_to_publish" =>
                  ~(ready_since'[i] < now' - EXPIRE_READY_TO_PUBLISH_HOURS)]_vars

\* C26: when a run of the Quality Gate ends, no item is left in
\* ai_completed that enrichment put there more than
\* EXPIRE_AI_COMPLETED_HOURS ago: an item that fails the quality check on
\* every run is discarded once it is older than the bound.
C26_StaleAiCompletedIsDiscarded ==
    [][GatePassEnds =>
          \A i \in DOMAIN scraping_items' :
              scraping_items'[i].status = "ai_completed" =>
                  ~(scraping_items'[i].ai_processed_at
                        < now' - EXPIRE_AI_COMPLETED_HOURS)]_vars

\* ---- 8. the two publish paths: specification SpecPaths -----------------

\* columns of scraping_items the publish paths read beside those of NewRow;
\* "" stands for a NULL source_section
ReadyColumns(source_section, summary, tags, ai_tags, image_urls) ==
    [source_section |-> source_section, summary |-> summary, tags |-> tags,
     ai_tags |-> ai_tags, image_urls |-> image_urls]

PathSections == {"", "deportes"}
PathCategories == {"", "Politica"}
PathTags == {<<>>, <<"clima">>}
PathAiTags == {<<>>, <<"lluvia">>}
PathImages == {<<>>, <<"img-1">>}
PathAiTitles == {NullTitle, TitleB}

\* text.lower() and the hyphenation of slugify, on the words of a title
slugify(text) == [i \in DOMAIN text.words |-> lower(text.words[i])]

\* the slug of a publication: slug_base, and the id appended on a clash
Slug(base, suffix) == [base |-> base, suffix |-> suffix]

\* check_slug_exists, on the rows of table publications
check_slug_exists(rows, slug) ==
    \E p \in DOMAIN rows : rows[p].slug = slug

\* a or b, on titles, texts, strings and lists
title_or(a, b) == IF StrLen(a) > 0 THEN a ELSE b
text_or(a, b) == IF a.body + a.pad > 0 THEN a ELSE b
str_or(a, b) == IF a # "" THEN a ELSE b
list_or(a, b) == IF Len(a) > 0 THEN a ELSE b

\* COALESCE(si.ai_category, si.source_section, 'general')
coalesce_category(row) ==
    IF row.ai_category # "" THEN row.ai_category
    ELSE IF row.source_section # "" THEN row.source_section
    ELSE "general"

\* the row get_ready_to_publish_items hands to the Curator
get_ready_to_publish_item(row) ==
    [id |-> row.id, title |-> row.title, summary |-> row.summary,
     content |-> row.content, category |-> coalesce_category(row),
     ai_title |-> row.ai_title, ai_summary |-> row.ai_summary,
     ai_category |-> row.ai_category, ai_tags |-> row.ai_tags,
     ai_metadata |-> row.ai_metadata, image_urls |-> row.image_urls]

\* the row get_items_to_publish hands to the Auto-Publisher
get_item_to_publish(row) ==
    [id |-> row.id, source_section |-> row.source_section,
     title |-> row.title, summary |-> row.summary,
     content |-> row.content, tags |-> row.tags,
     image_urls |-> row.image_urls,
     ai_title |-> row.ai_title, ai_summary |-> row.ai_summary,
     ai_category |-> row.ai_category, ai_tags |-> row.ai_tags,
     ai_metadata |-> row.ai_metadata]

\* image_urls turned into the media list
media_of(image_urls) ==
    [i \in DOMAIN image_urls |->
        [type |-> "image", url |-> image_urls[i], caption |-> "",
         order |-> i - 1]]

\* the slug create_publication settles on
slug_for(rows, item_id, title) ==
    LET slug_base == Slug(slugify(title), 0)
    IN  IF check_slug_exists(rows, slug_base)
        THEN Slug(slugify(title), item_id)
        ELSE slug_base

\* the row both paths INSERT INTO publications
PublicationRow(rows, item, title, summary, category, tags) ==
    [id |-> Cardinality(DOMAIN rows) + 1,
     scraping_item_id |-> item.id,
     state |-> "published",
     title |-> title,
     slug |-> slug_for(rows, item.id, title),
     summary |-> summary,
     body |-> item.content,
     category |-> category,
     tags |-> tags,
     content_sin_vueltas |-> item.ai_metadata.sin_vueltas,
     content_lo_central |-> item.ai_metadata.lo_central,
     content_en_profundidad |-> item.ai_metadata.en_profundidad,
     media |-> media_of(item.image_urls)]

\* news_curator.create_publication: the row it inserts
curator_create_publication(rows, item) ==
    PublicationRow(rows, item,
                   title_or(item.ai_title, item.title),
                   text_or(item.ai_summary, item.summary),
                   str_or(item.ai_category, item.category),
                   list_or(item.ai_tags, <<>>))

\* auto_publish.create_publication: the row it inserts
auto_publish_create_publication(rows, item) ==
    PublicationRow(rows, item,
                   title_or(item.ai_title, item.title),
                   text_or(item.ai_summary, item.summary),
                   item.ai_category,
                   list_or(item.ai_tags, list_or(item.tags, <<>>)))

\* the UPDATE scraping_items both paths end with, on the rows of the table
mark_published(items, item_id, publication_id, message) ==
    [items EXCEPT
        ![item_id].publication_id = publication_id,
        ![item_id].status = "published",
        ![item_id].status_message = Msg(message),
        ![item_id].status_updated_at = now]

PathFrame ==
    UNCHANGED <<urlVars, curVars, ctlVars, now, next_id, inflight,
                scraping_sources, gate_pass, gate_log, publish_pass,
                ready_since>>

\* publish_items of the Curator, on one selected item
curator_publish_item(item_id) ==
    /\ item_id \in Ids
    /\ scraping_items[item_id].status = "ready_to_publish"
    /\ LET item == get_ready_to_publish_item(scraping_items[item_id])
           row == curator_create_publication(publications, item)
       IN  /\ StrLen(row.title) > 0
           /\ publications' = (row.id :> row) @@ publications
           /\ scraping_items' =
                  mark_published(scraping_items, item_id, row.id, "curator_published")
           /\ last_op' = [name |-> "curator_publish", id |-> item_id]
    /\ PathFrame

\* process_item of the Auto-Publisher, on one item of its list
auto_publish_item(item_id) ==
    /\ item_id \in Ids
    /\ scraping_items[item_id].status = "ready_to_publish"
    /\ scraping_items[item_id].publication_id = 0
    /\ LET item == get_item_to_publish(scraping_items[item_id])
           row == auto_publish_create_publication(publications, item)
       IN  /\ StrLen(row.title) > 0
           /\ publications' = (row.id :> row) @@ publications
           /\ scraping_items' =
                  mark_published(scraping_items, item_id, row.id, "auto_published")
           /\ last_op' = [name |-> "auto_publish", id |-> item_id]
    /\ PathFrame

\* a ready_to_publish row with the given optional columns
PathRow(id, title, ai_title, ai_category, columns) ==
    [ScrapedRow(id, "lagaceta", GoodContent, title, 0)
        EXCEPT !.status = "ready_to_publish",
               !.ai_title = ai_title,
               !.ai_summary = GoodResponse.summary,
               !.ai_category = ai_category,
               !.ai_metadata =
                   [sin_vueltas |-> GoodResponse.sin_vueltas,
                    lo_central |-> GoodResponse.lo_central,
                    en_profundidad |-> GoodResponse.en_profundidad,
                    is_valid |-> "true"]]
    @@ columns

\* two items wait in ready_to_publish: item 1 carries every combination of
\* the optional columns, item 2 has the headline of item 1's enrichment, so
\* that whichever is published second meets a taken slug
InitPaths ==
    /\ url_u = <<>>
    /\ url_v = <<>>
    /\ CuratorIdle
    /\ CtlIdle
    /\ now = 0
    /\ \E ai_title \in PathAiTitles, ai_category \in PathCategories,
          source_section \in PathSections, tags \in PathTags,
          ai_tags \in PathAiTags, image_urls \in PathImages :
          scraping_items =
              (1 :> PathRow(1, TitleA, ai_title, ai_category,
                             ReadyColumns(source_section, NullText, tags,
                                          ai_tags, image_urls)))
              @@ (2 :> PathRow(2, TitleB, NullTitle, "Politica",
                                ReadyColumns("", NullText, <<>>,
                                             <<"senado">>, <<>>)))
    /\ next_id = 2
    /\ inflight = {}
    /\ last_op = NoOp
    /\ publications = <<>>
    /\ scraping_sources = {}
    /\ gate_pass = NoPass
    /\ gate_log = <<>>
    /\ publish_pass = NoPass
    /\ ready_since = <<>>

NextPaths ==
    \/ \E item_id \in Ids : curator_publish_item(item_id)
    \/ \E item_id \in Ids : auto_publish_item(item_id)

SpecPaths == InitPaths /\ [][NextPaths]_vars

\* the columns of a published article the two paths are to agree on
ArticleOf(row) ==
    [title |-> row.title, slug |-> row.slug, summary |-> row.summary,
     body |-> row.body, category |-> row.category, tags |-> row.tags,
     content_sin_vueltas |-> row.content_sin_vueltas,
     content_lo_central |-> row.content_lo_central,
     content_en_profundidad |-> row.content_en_profundidad,
     media |-> row.media]

\* a step in which one of the two paths publishes an item
PublishesThroughAPath ==
    last_op'.name \in {"curator_publish", "auto_publish"}
    /\ publications' # publications

\* C27: whichever path publishes a ready_to_publish item, the article it
\* creates is the one the Curator's create_publication and the
\* Auto-Publisher's create_publication would both create for that item on
\* that store state, and the item ends published with its publication link.
C27_PublishPathsAgree ==
    [][PublishesThroughAPath =>
          LET item_id == last_op'.id
              row == scraping_items[item_id]
              made == publications'[scraping_items'[item_id].publication_id]
          IN  /\ ArticleOf(made) =
                     ArticleOf(curator_create_publication(
                                   publications,
                                   get_ready_to_publish_item(row)))
              /\ ArticleOf(made) =
                     ArticleOf(auto_publish_create_publication(
                                   publications,
                                   get_item_to_publish(row)))
              /\ scraping_items'[item_id].status = "published"
              /\ scraping_items'[item_id].publication_id = made.id]_vars

\* ---- 9. a Source Scraper's own fingerprint: specification SpecScraper --

MaxHarvest == 2         \* articles a Source Scraper stores in one run

\* the links a scraper harvests from a section page
HarvestedUrls ==
    [scheme : {"https"}, host : {"example.com", "Example.com"},
     port : {"", "443"},
     path : {[segs |-> <<"nota">>, slashes |-> 0],
             [segs |-> <<"nota">>, slashes |-> 1]},
     query : {<<>>, <<[k |-> "a", v |-> "1"]>>,
              <<[k |-> "utm_source", v |-> "1"]>>},
     fragment : {""}]

\* the texts a scraper reads from an article page
HarvestedContents ==
    {GoodContent, [txt |-> "texto dos", body |-> 130, pad |-> 0]}

\* url.lower().strip() on the parts urlparse splits a URL into
lower_url(url) ==
    [scheme |-> lower(url.scheme), host |-> lower(url.host),
     port |-> url.port,
     path |-> [segs |-> [i \in DOMAIN url.path.segs |->
                            lower(url.path.segs[i])],
               slashes |-> url.path.slashes],
     query |-> [i \in DOMAIN url.query |->
                   [k |-> lower(url.query[i].k),
                    v |-> lower(url.query[i].v)]],
     fragment |-> lower(url.fragment)]

\* the scrapers' own normalize_url: lower-case the whole URL, drop the
\* fragment and the slashes that end the path; the port and the query stay
\* as they were written
scraper_normalize_url(url) ==
    LET parsed == lower_url(url)
    IN  [scheme |-> parsed.scheme, host |-> parsed.host,
         port |-> parsed.port,
         path |-> [segs |-> parsed.path.segs, slashes |-> 0],
         query |-> parsed.query, fragment |-> ""]

\* the scrapers' calculate_hash: ' '.join(text.lower().strip().split()),
\* hashed; applied to a normalised URL and to the text of an article
calculate_hash(text) ==
    IF "scheme" \in DOMAIN text
    THEN hash_text(lower_url(text))
    ELSE hash_text(normalize_content(text))

\* the scrapers' check_duplicate
check_duplicate(url_hash, content_hash) ==
    \E i \in Ids : \/ scraping_items[i].url_hash = url_hash
                   \/ scraping_items[i].content_hash = content_hash

\* the empty string process_article passes as content_hash before it has
\* read the article: no digest equals it
NoContentHash == <<"", [txt |-> "", body |-> 0, pad |-> 0]>>

\* the row process_article prepares: data = {...}
harvested_row(id, enlace, contenido) ==
    NewRow(id,
           [source_media |-> "lagaceta",
            url_hash |-> calculate_hash(scraper_normalize_url(enlace)),
            content |-> contenido,
            content_hash |-> calculate_hash(contenido),
            title |-> TitleA],
           now, "scraped", Msg("scraped"))
    @@ [source_url |-> enlace,
        source_url_normalized |-> scraper_normalize_url(enlace)]

\* process_article of a Source Scraper, for one harvested link
process_article(enlace, contenido) ==
    /\ next_id < MaxHarvest
    /\ LET url_normalized == scraper_normalize_url(enlace)
           url_hash == calculate_hash(url_normalized)
           content_hash == calculate_hash(contenido)
           id == next_id + 1
       IN  IF \/ check_duplicate(url_hash, NoContentHash)
              \/ check_duplicate(url_hash, content_hash)
           THEN /\ UNCHANGED <<scraping_items, next_id>>
                /\ last_op' = [name |-> "scrape_skip", enlace |-> enlace]
           ELSE /\ scraping_items' =
                       (id :> harvested_row(id, enlace, contenido))
                       @@ scraping_items
                /\ next_id' = id
                /\ last_op' = [name |-> "scrape_insert", enlace |-> enlace,
                               id |-> id]
    /\ UNCHANGED <<urlVars, curVars, pipeVars, ctlVars, now, inflight>>

InitScraper ==
    /\ url_u = <<>>
    /\ url_v = <<>>
    /\ StoreIdle
    /\ CuratorIdle
    /\ CtlIdle
    /\ PipeIdle

NextScraper ==
    \E enlace \in HarvestedUrls, contenido \in HarvestedContents :
        process_article(enlace, contenido)

SpecScraper == InitScraper /\ [][NextScraper]_vars

\* C28: the fingerprint a Source Scraper stores for a harvested link is the
\* Fingerprint Engine's generate_url_hash of that link, and no two rows a
\* scraper stored have links the Fingerprint Engine treats as one URL.
C28_ScraperFingerprintIsTheEngines ==
    /\ [][last_op'.name = "scrape_insert" =>
              scraping_items'[last_op'.id].url_hash =
                  generate_url_hash(last_op'.enlace)]_vars
    /\ [](\A i, j \in Ids :
             generate_url_hash(scraping_items[i].source_url) =
                 generate_url_hash(scraping_items[j].source_url) => i = j)

\* ---- 10. a curation pass on request: specification SpecDryRun ----------

\* ORDER BY si.scraped_at DESC: a may come before b
CuratorOrder(a, b) == a.scraped_at >= b.scraped_at

\* get_ready_to_publish_items: the results the SELECT can return on the rows
\* of scraping_items (rows scraped at the same moment come in either order)
get_ready_to_publish_items(items) ==
    LET S == {i \in DOMAIN items : items[i].status = "ready_to_publish"}
    IN  {[k \in 1..Cardinality(S) |->
             get_ready_to_publish_item(items[q[k]])
             @@ [source_media |-> items[q[k]].source_media,
                 created_at |-> items[q[k]].scraped_at]]
         : q \in {o \in Orderings(S) :
                     \A i, j \in 1..Cardinality(S) :
                         i < j => CuratorOrder(items[o[i]], items[o[j]])}}

\* the headline of an item as the list of words select_curated_items splits
\* it into
with_title_words(all_items) ==
    [k \in DOMAIN all_items |->
        [id |-> all_items[k].id, title |-> all_items[k].title.words,
         category |-> all_items[k].category,
         source_media |-> all_items[k].source_media,
         created_at |-> all_items[k].created_at]]

\* the items of all_items with the ids of chosen, in the order of chosen
items_of(all_items, chosen) ==
    [k \in DOMAIN chosen |-> ItemById(all_items, chosen[k].id)]

\* the items of all_items that select_curated_items returns, in its order
selected_of(all_items, config) ==
    items_of(all_items,
             select_curated_items(with_title_words(all_items),
                                  config.curator_target_count,
                                  config.curator_max_per_category,
                                  config.curator_max_per_source))

\* publish_items: create_publication for every selected item, one after the
\* other, on the tables [publications, scraping_items]
RECURSIVE publish_items(_, _)
publish_items(tables, selected) ==
    IF selected = <<>> THEN tables
    ELSE LET item == Head(selected)
             row == curator_create_publication(tables.publications, item)
         IN  IF StrLen(row.title) = 0
             THEN publish_items(tables, Tail(selected))
             ELSE publish_items(
                      [publications |-> (row.id :> row) @@ tables.publications,
                       scraping_items |->
                           mark_published(tables.scraping_items, item.id,
                                          row.id, "curator_published"),
                       published |-> Append(tables.published, item.id)],
                      Tail(selected))

\* the dictionary curate_and_publish returns, and the tables it leaves
curate_result(all_items, selected, dry_run, after) ==
    [stats |-> [total_available |-> Len(all_items),
                selected_count |-> Len(selected),
                published_count |-> Len(after.published),
                dry_run |-> dry_run,
                selected_items |->
                    IF dry_run /\ all_items # <<>>
                    THEN [k \in DOMAIN selected |-> selected[k].id]
                    ELSE <<>>],
     published |-> after.published,
     publications |-> after.publications,
     scraping_items |-> after.scraping_items]

\* curate_and_publish once select_curated_items has returned: the dry run
\* returns, the other run calls publish_items
curate_selected(tables, all_items, selected, dry_run) ==
    curate_result(all_items, selected, dry_run,
                  IF dry_run \/ all_items = <<>> THEN tables
                  ELSE publish_items(tables, selected))

\* curate_and_publish on one result of its SELECT
curate_and_publish(all_items, config, dry_run) ==
    curate_selected([publications |-> publications,
                     scraping_items |-> scraping_items, published |-> <<>>],
                    all_items, selected_of(all_items, config), dry_run)

\* variant: the last-run time advances after every pass
last_curate_after_every_pass(last_curate, dry_run) == at(now)

\* if not dry_run: last_curate = datetime.now()
last_curate_after(last_curate, dry_run) ==
    IF dry_run THEN last_curate ELSE at(now)

\* the service loop once curate_news(dry_run) has returned run
curate_returned(run, dry_run) ==
    /\ publications' = run.publications
    /\ scraping_items' = run.scraping_items
    /\ sched' = [sched EXCEPT
                    !.last_curate = last_curate_after(@, dry_run)]
    /\ controller' =
          [controller EXCEPT
              !.curate_now_requested = FALSE,
              !.curate_dry_run = FALSE,
              !.last_curate_time = last_curate_after(@, dry_run),
              !.items_processed.curated =
                  IF dry_run THEN @ ELSE @ + run.stats.published_count]
    /\ last_op' = [name |-> "curate", dry_run |-> dry_run,
                   stats |-> run.stats]

\* the curator request of the service loop: the loop wakes, takes the
\* request, awaits curate_news(dry_run) and continues; no other command is
\* pending and every scheduled task is switched off, so it sleeps again
curate_command ==
    /\ sched.pc = "sleep"
    /\ controller.curate_now_requested
    /\ \E all_items \in get_ready_to_publish_items(scraping_items) :
          curate_returned(curate_and_publish(all_items, controller.config,
                                             controller.curate_dry_run),
                          controller.curate_dry_run)
    /\ UNCHANGED <<urlVars, curVars, now, next_id, inflight,
                   scraping_sources, gate_pass, gate_log, publish_pass,
                   ready_since, logs, notifier, config_file>>

\* the configurations of the curator in this specification; the scheduled
\* tasks are switched off
DryRunConfigs ==
    {[curator_target_count |-> c.target_count,
      curator_max_per_category |-> c.max_per_category,
      curator_max_per_source |-> c.max_per_source]
     @@ [default_config EXCEPT !.scrape_enabled = FALSE,
                               !.ai_process_enabled = FALSE]
     : c \in CuratorSettings
             \cup {[target_count |-> 1, max_per_category |-> 1,
                    max_per_source |-> 1]}}

\* three items wait in ready_to_publish, scraped at three moments; the
\* second has the headline of the first or another one, and the category of
\* the first or none
InitDryRun ==
    /\ url_u = <<>>
    /\ url_v = <<>>
    /\ CuratorIdle
    /\ now = 1
    /\ \E title \in {TitleA, TitleD}, ai_category \in PathCategories,
          ai_title \in PathAiTitles :
          scraping_items =
              (1 :> [PathRow(1, TitleA, NullTitle, "Politica",
                             ReadyColumns("", NullText, <<>>, <<>>, <<>>))
                        EXCEPT !.scraped_at = -2])
              @@ (2 :> [PathRow(2, title, ai_title, ai_category,
                                ReadyColumns("", NullText, <<>>, <<>>, <<>>))
                           EXCEPT !.scraped_at = -1])
              @@ (3 :> PathRow(3, TitleB, NullTitle, "Politica",
                               ReadyColumns("", NullText, <<>>, <<>>, <<>>)))
    /\ next_id = 3
    /\ inflight = {}
    /\ last_op = NoOp
    /\ PipeIdle
    /\ \E config \in DryRunConfigs :
          controller =
              [items_processed |-> [curated |-> 0],
               last_curate_time |-> datetime_min]
              @@ NewController(config)
    /\ sched = [NewSched EXCEPT !.pc = "sleep"]
    /\ logs = [log_buffer |-> <<>>, log_subscribers |-> <<>>]
    /\ notifier = NoNotifier
    /\ config_file = save_config(controller)

NextDryRun ==
    \/ \E dry_run \in BOOLEAN : handle_curate(dry_run)
    \/ curate_command

SpecDryRun == InitDryRun /\ [][NextDryRun]_vars

\* a step that is a curation pass run with dry_run = true
DryRunPass == last_op'.name = "curate" /\ last_op'.dry_run

Environment ==
    [SCRAPE_INTERVAL_MINUTES |-> default_config.scrape_interval_minutes,
     AI_PROCESS_INTERVAL_MINUTES |->
         default_config.ai_process_interval_minutes,
     PREPARE_HOURS_AGO |-> 24]

\* default_config of _load_config with all its keys
all_defaults ==
    [prepare_hours_ago |-> 24, curator_target_count |-> 12,
     curator_max_per_category |-> 3, curator_max_per_source |-> 3]
    @@ default_config

\* _load_config: default_config.update(saved_config) when CONFIG_FILE
\* exists, the defaults when it does not
load_config(file) ==
    [k \in DOMAIN all_defaults \cup DOMAIN file |->
        IF k \in DOMAIN file THEN file[k] ELSE all_defaults[k]]

\* _load_config writes the defaults when CONFIG_FILE does not exist
file_after_load(file) == IF DOMAIN file = {} THEN all_defaults ELSE file

\* main, "Initialize controller config from env"
config_from_env(c) ==
    [c EXCEPT
        !.config.scrape_interval_minutes =
            Environment.SCRAPE_INTERVAL_MINUTES,
        !.config.ai_process_interval_minutes =
            Environment.AI_PROCESS_INTERVAL_MINUTES,
        !.config.prepare_hours_ago = Environment.PREPARE_HOURS_AGO]

\* the controller once the process has started with CONFIG_FILE as it is
started_controller(file) ==
    config_from_env(NewController(load_config(file)))

\* the bodies of PUT /config
PutBodies ==
    {[scrape_interval_minutes |-> 3],
     [ai_process_interval_minutes |-> 2],
     [prepare_hours_ago |-> 12],
     [curator_target_count |-> 5],
     [scrape_enabled |-> FALSE, not_a_key |-> 1],
     [curator_enabled |-> TRUE, curator_interval_minutes |-> 3]}

\* the service process ends and is started again: the module constructs a
\* new ScraperController, main starts the control server and enters its loop
process_restart ==
    /\ controller' = started_controller(config_file)
    /\ config_file' = file_after_load(config_file)
    /\ sched' = NewSched
    /\ logs' = [log_buffer |-> <<>>, log_subscribers |-> <<>>]
    /\ last_op' = [name |-> "process_restart"]
    /\ UNCHANGED <<urlVars, curVars, pipeVars, now, scraping_items, next_id,
                   inflight, notifier>>

\* the process starts for the first time or with a file a former run left
InitConfig ==
    /\ url_u = <<>>
    /\ url_v = <<>>
    /\ CuratorIdle
    /\ StoreIdle
    /\ PipeIdle
    /\ \E file \in {NoConfigFile,
                    [all_defaults EXCEPT !.curator_target_count = 5]} :
          /\ controller = started_controller(file)
          /\ config_file = file_after_load(file)
    /\ sched = NewSched
    /\ logs = [log_buffer |-> <<>>, log_subscribers |-> <<>>]
    /\ notifier = NoNotifier

NextConfig ==
    \/ \E new_config \in PutBodies : handle_put_config(new_config)
    \/ process_restart

SpecConfig == InitConfig /\ [][NextConfig]_vars

\* a step that is a PUT /config
PutConfigStep ==
    last_op'.name = "command" /\ last_op'.message = "Configuration updated"

\* C30: a PUT /config assigns the keys of its body that the configuration
\* has, leaves every other key as it was and saves the result; after the
\* service process is restarted every key has the value that was saved.
C30_ConfigSurvivesRestart ==
    /\ [][PutConfigStep =>
              /\ config_file' = controller'.config
              /\ \E new_config \in PutBodies :
                    /\ DOMAIN controller'.config = DOMAIN controller.config
                    /\ \A k \in DOMAIN controller.config :
                          controller'.config[k] =
                              IF k \in DOMAIN new_config
                              THEN new_config[k]
                              ELSE controller.config[k]]_vars
    /\ [][last_op'.name = "process_restart" =>
              \A k \in DOMAIN config_file :
                  controller'.config[k] = config_file[k]]_vars


\* ======================================================================
\* 12. A scheduled stage that fails (scraper_service.py main, process_ai)
\* ======================================================================

\* the service on its schedule, where an attempt of the enrichment may fail
NextFailure ==
    \/ Elapse
    \/ loop_step
    \/ \E status \in ScrapeOutcomes : scrape_source(status)
    \/ \E stage \in CatchingStages : stage_error(stage)

SpecFailure == InitSchedule /\ [][NextFailure]_vars

\* the last-run time the schedule keeps for a stage
last_run(s, stage) ==
    CASE stage \in {"run_scraping", "prepare_for_ai"} -> s.last_scrape
      [] stage = "process_ai" -> s.last_ai_process
      [] stage = "curate_news" -> s.last_curate
      [] OTHER -> datetime_min

\* the stages of the scrape cycle and of the enrichment
TransientStages == {"run_scraping", "prepare_for_ai", "process_ai"}

\* a step in which an attempt of a scheduled stage fails
StageFails(stage) ==
    /\ sched.iter.command = Null
    /\ stage \in sched'.iter.failed \ sched.iter.failed

\* the iteration goes on after a failed attempt of the stage
AfterFailure(stage) ==
    /\ sched.iter.command = Null
    /\ stage \in sched.iter.failed
    /\ stage \in sched'.iter.failed

\* C31: a scheduled stage that fails with a transient error (in the scrape
\* stage or in the enrichment stage) never terminates the loop, and the
\* failed attempt does not advance that stage's last-run time, so that the
\* stage is attempted again on the next tick.
C31_FailedStageIsRetried ==
    [][\A stage \in TransientStages :
          /\ StageFails(stage) =>
                /\ sched'.pc \notin {"stopped", "top"}
                /\ ~stop_seen => ~stop_seen'
          /\ StageFails(stage) \/ AfterFailure(stage) =>
                last_run(sched', stage) = last_run(sched, stage)]_vars

\* the part of C31 that holds: a failed attempt never terminates the loop,
\* and a failed attempt of the scrape stage leaves last_scrape alone
C31_ScrapeFailureIsRetried ==
    [][\A stage \in TransientStages :
          /\ StageFails(stage) =>
                /\ sched'.pc \notin {"stopped", "top"}
                /\ ~stop_seen => ~stop_seen'
          /\ stage \in RaisingStages
                /\ (StageFails(stage) \/ AfterFailure(stage)) =>
                last_run(sched', stage) = last_run(sched, stage)]_vars


\* ======================================================================
\* 13. The database at startup (scraper_service.py get_db_connection, main)
\* ======================================================================

\* get_db_connection: max_retries = 5
db_max_retries == 5

\* the stages that begin with conn = await get_db_connection() outside any
\* try block, while they wait for their connection
Connecting(stage) ==
    /\ stage \in sched.running \cap RaisingStages
    /\ stage = "run_scraping" => sched.sources.none

\* asyncpg.connect raised and attempt < max_retries - 1: the failure is
\* logged and the call sleeps retry_delay before the next attempt
connect_failed(stage) ==
    /\ Connecting(stage)
    /\ sched.attempt < db_max_retries - 1
    /\ sched' = [sched EXCEPT !.attempt = @ + 1]
    /\ last_op' = [name |-> "connect_failed", stage |-> stage]
    /\ UNCHANGED <<controller, scraping_sources>>
    /\ SchedFrame

\* asyncpg.connect raised in the last attempt: get_db_connection re-raises,
\* and the stage has no handler around the call
connect_exhausted(stage) ==
    /\ Connecting(stage)
    /\ sched.attempt = db_max_retries - 1
    /\ stage_raise(stage)

\* the service from its start, with a database that may refuse connections
NextStartup ==
    \/ loop_step
    \/ \E status \in ScrapeOutcomes : scrape_source(status)
    \/ \E stage \in RaisingStages : connect_failed(stage)
    \/ \E stage \in RaisingStages : connect_exhausted(stage)

SpecStartup == InitSchedule /\ [][NextStartup]_vars

\* the step in which the last of the bounded connection attempts fails
RetriesExhausted ==
    \E stage \in RaisingStages :
        /\ Connecting(stage)
        /\ sched.attempt = db_max_retries - 1
        /\ stage \notin sched'.running
        /\ stage \in sched'.iter.failed

\* the loop is over: the process is on its way out
Exiting(s, c) == s.pc = "stopped" \/ s.shutdown_requested \/ c.stop_requested

\* C32: if the database stays unreachable through the bounded connection
\* retries (5 attempts), the scheduler process exits instead of continuing
\* to run its loop.
C32_ExitsWithoutDatabase ==
    [][RetriesExhausted => Exiting(sched', controller')]_vars

\* what the code does: a stage gives up after max_retries attempts, and the
\* loop goes on with the part of the iteration that follows the stage
C32_LoopGoesOn ==
    /\ sched.attempt < db_max_retries
    /\ [][RetriesExhausted /\ ~Exiting(sched, controller) =>
             /\ sched'.pc = sched.on_error
             /\ sched'.attempt = 0
             /\ controller'.status = controller.status]_vars


\* ======================================================================
\* 14. The trigger reason of a ScrapingRun (scraper_service.py run_scraping)
\* ======================================================================

\* the scraping_runs rows the last step inserted
InsertedRuns ==
    IF last_op.name = "scrape_select" THEN last_op.scraping_runs ELSE {}

\* what started the cycle in flight: a run-now command or the interval
cycle_trigger(s) ==
    IF s.iter.command = "run_now" THEN "manual" ELSE "automatic"

\* C33: every ScrapingRun records the trigger reason manual when its cycle
\* was started by a run-now command and automatic when it was started by
\* the scrape interval, whether or not a list of source ids was supplied or
\* configured for the cycle.
C33_TriggerReasonIsTheTrigger ==
    \A run \in InsertedRuns : run.triggered_by = cycle_trigger(sched)

\* what the code records: manual exactly when the cycle was given a
\* non-empty list of source ids
C33_TriggerReasonIsTheList ==
    \A run \in InsertedRuns :
        run.triggered_by = "manual" <=> ~falsy_list(sched.source_ids)


\* ======================================================================
\* 15. The admin's delete and publish (routes/scraping_items.py)
\* ======================================================================

\* a test of the status alone
published_item_by_status(item) == item.status = "published"

\* if item.status == "published" or item.publication_id
published_item(item) == item.status = "published" \/ item.publication_id # 0

\* DELETE FROM scraping_items WHERE id = item_id, with the foreign key
\* publications.scraping_item_id ON DELETE SET NULL
publications_without(item_id) ==
    [p \in DOMAIN publications |->
        IF publications[p].scraping_item_id = item_id
        THEN [publications[p] EXCEPT !.scraping_item_id = 0]
        ELSE publications[p]]

\* delete_scraping_item: 404 without a row, 400 for a published item,
\* else the row is deleted (204)
delete_scraping_item(item_id) ==
    LET status_code ==
            IF item_id \notin Ids THEN 404
            ELSE IF published_item(scraping_items[item_id]) THEN 400
            ELSE 204
    IN  /\ last_op' = [name |-> "delete", id |-> item_id,
                       status_code |-> status_code]
        /\ IF status_code = 204
           THEN /\ scraping_items' =
                       [i \in Ids \ {item_id} |-> scraping_items[i]]
                /\ publications' = publications_without(item_id)
           ELSE UNCHANGED <<scraping_items, publications>>
        /\ UNCHANGED <<urlVars, curVars, ctlVars, now, next_id, inflight,
                       scraping_sources, gate_pass, gate_log, publish_pass,
                       ready_since>>

\* the response of publish_scraping_item that refuses the item, 200 if none
publish_status_code(item_id) ==
    IF item_id \notin Ids THEN 404
    ELSE IF scraping_items[item_id].status \in {"published", "discarded"}
    THEN 400
    ELSE IF scraping_items[item_id].publication_id # 0 THEN 400
    ELSE IF StrLen(title_to_use(scraping_items[item_id])) = 0 THEN 400
    ELSE IF insert_publication(item_id, TitleA) = publications THEN 500
    ELSE 200

publish_detail(item_id) ==
    IF item_id \notin Ids THEN "Scraping item not found"
    ELSE IF scraping_items[item_id].status \in {"published", "discarded"}
    THEN "Cannot publish item with status"
    ELSE IF scraping_items[item_id].publication_id # 0
    THEN "Item already published"
    ELSE IF StrLen(title_to_use(scraping_items[item_id])) = 0
    THEN "Cannot publish without a title"
    ELSE ""

\* POST /{item_id}/publish: the whole handler, with its refusals
publish_request(item_id) ==
    IF publish_status_code(item_id) = 200
    THEN publish_scraping_item(item_id)
    ELSE /\ last_op' = [name |-> "publish_refused", id |-> item_id,
                        status_code |-> publish_status_code(item_id),
                        detail |-> publish_detail(item_id)]
         /\ UNCHANGED <<nonStoreVars, now, scraping_items, next_id,
                        inflight>>

\* the statuses an admin sets with PATCH {"status": ...}
AdminStatuses == {"ai_completed", "ready_to_publish", "published",
                  "discarded"}

admin_update_status ==
    \E item_id \in Ids, new_status \in AdminStatuses :
        /\ scraping_items[item_id].status # new_status
        /\ update_scraping_item(item_id, [status |-> new_status])

\* the ids of the requests: the two items and an id without a row
RequestIds == 1 .. 3

InitAdmin ==
    /\ url_u = <<>>
    /\ url_v = <<>>
    /\ CuratorIdle
    /\ CtlIdle
    /\ now = 0
    /\ \E title \in {TitleB, NullTitle} :
         scraping_items =
             (1 :> ScrapedRow(1, "lagaceta", GoodContent, TitleA, 0))
             @@ (2 :> ScrapedRow(2, "infobae", GoodContent, title, 0))
    /\ next_id = 2
    /\ inflight = {}
    /\ last_op = NoOp
    /\ PipeIdle

NextAdmin ==
    \/ admin_update_status
    \/ \E item_id \in RequestIds : delete_scraping_item(item_id)
    \/ \E item_id \in RequestIds : publish_request(item_id)

SpecAdmin == InitAdmin /\ [][NextAdmin]_vars

\* a step that is a delete request for the item
DeleteOf(item_id) == last_op'.name = "delete" /\ last_op'.id = item_id

\* the item has the status published, or a linked publication
WhilePublished(item_id) ==
    \/ scraping_items[item_id].status = "published"
    \/ scraping_items[item_id].publication_id \in DOMAIN publications

WrongStatuses == {"scraped", "published", "discarded"}

\* a step that is a publish request for the item
PublishOf(item_id) ==
    /\ last_op'.name \in {"manual_publish", "publish_refused"}
    /\ last_op'.id = item_id

\* C35: the manual publish rejects with a 400 error ("Cannot publish item
\* with status ..."), creating no publication and leaving the item
\* unchanged, every item whose status does not allow publishing; an item
\* still in status scraped cannot be published directly.
C35_WrongStatusIsNotPublished ==
    [][\A item_id \in Ids :
          /\ scraping_items[item_id].status \in WrongStatuses
          /\ PublishOf(item_id)
          => /\ last_op'.name = "publish_refused"
             /\ last_op'.status_code = 400
             /\ last_op'.detail = "Cannot publish item with status"
             /\ publications' = publications
             /\ scraping_items' = scraping_items]_vars

\* what the handler refuses: a published or discarded item, an item with a
\* publication, an item without any title; every other item is published
C35_RefusesPublishedAndDiscarded ==
    [][\A item_id \in Ids :
          PublishOf(item_id) =>
             IF \/ scraping_items[item_id].status
                      \in {"published", "discarded"}
                \/ scraping_items[item_id].publication_id # 0
                \/ StrLen(title_to_use(scraping_items[item_id])) = 0
             THEN /\ last_op'.name = "publish_refused"
                  /\ last_op'.status_code = 400
                  /\ publications' = publications
                  /\ scraping_items' = scraping_items
             ELSE /\ last_op'.name = "manual_publish"
                  /\ scraping_items'[item_id].status = "published"
                  /\ scraping_items'[item_id].publication_id
                        \in DOMAIN publications' \ DOMAIN publications]_vars


\* ======================================================================
\* 16. The size of the curator's selection (news_curator.py)
\* ======================================================================

\* the largest target_count of the small targets, and the longest list
\* they are tried on
MaxTarget == 3
MaxTargetN == 8

TargetLists == {l \in GeneratedLists : Len(l) <= MaxTargetN}

\* the shorter generated lists under targets that are smaller than the number of
\* categories, equal to it and larger, with the default caps
InitTarget ==
    /\ url_u = <<>>
    /\ url_v = <<>>
    /\ StoreIdle
    /\ PipeIdle
    /\ CtlIdle
    /\ \E l \in TargetLists, target_count \in 1 .. MaxTarget :
            cur_in = [items |-> l, target_count |-> target_count,
                      max_per_category |-> 3, max_per_source |-> 3]
    /\ cur_out = [done |-> FALSE]

SpecTarget == InitTarget /\ [][NextCurator]_vars

\* C36: for every input list and every target_count >= 1,
\* select_curated_items returns at most target_count items, whatever the
\* number of categories present in the input.
C36_AtMostTargetCount ==
    cur_out.done => Len(cur_out.selected) <= cur_in.target_count

\* what the code returns: at most target_count items, or one item for each
\* category left after the removal of near-duplicates if those are more
C36_AtMostTargetOrSeeds ==
    cur_out.done =>
        /\ Len(cur_out.selected)
              <= Max(cur_in.target_count, Cardinality(CandidateCategories))
        /\ Cardinality(CandidateCategories) <= cur_in.target_count
              => Len(cur_out.selected) <= cur_in.target_count


\* ======================================================================
\* 17. Near-duplicates in the curator's selection (news_curator.py)
\* ======================================================================

\* two items whose titles score the threshold or more
NearDuplicates(item1, item2) ==
    SimGE(calculate_similarity(item1.title, item2.title), DUPLICATE_THRESHOLD)

\* the pairs of positions of a list that hold near-duplicates
NearDuplicatePairs(list) ==
    {p \in (1..Len(list)) \X (1..Len(list)) :
        p[1] < p[2] /\ NearDuplicates(list[p[1]], list[p[2]])}

C37_NoTwoOfOneGroup ==
    cur_out.done =>
        \A g \in 1..Len(cur_out.groups) :
            Cardinality(Range(cur_out.groups[g]) \cap IdsOf(cur_out.selected))
                <= 1


\* ======================================================================
\* 18. The workers of one scrape cycle (scrape_lagaceta_db.py)
\* ======================================================================

\* the tasks of a batch that run at once (CONCURRENCY = 5 in the scraper)
MaxWorkers == 2

\* the links of a section page: three URLs with three url_hash values
WorkerLinks ==
    {url \in HarvestedUrls :
        url.host = "example.com" /\ url.port = "" /\ url.path.slashes = 0}

\* a task that has not read its page yet
NoContent == [txt |-> "", body |-> 0, pad |-> 0]

url_hash_of(enlace) == calculate_hash(scraper_normalize_url(enlace))

\* procesar_noticia up to its first await after the URL check: a link whose
\* url_hash is stored is skipped, else the task opens the page
worker_check_url(enlace) ==
    /\ Cardinality(inflight) < MaxWorkers
    /\ \A w \in inflight : w.enlace # enlace
    /\ IF check_duplicate(url_hash_of(enlace), NoContentHash)
       THEN /\ last_op' = [name |-> "worker_skip", enlace |-> enlace,
                           why |-> "URL"]
            /\ UNCHANGED inflight
       ELSE /\ inflight' = inflight \cup
                   {[enlace |-> enlace, pc |-> "page",
                     contenido |-> NoContent]}
            /\ last_op' = [name |-> "worker_page", enlace |-> enlace]
    /\ UNCHANGED <<nonStoreVars, now, scraping_items, next_id>>

\* the page is read, content_hash computed and check_duplicate asked again
worker_check_content(w, contenido) ==
    /\ w \in inflight
    /\ w.pc = "page"
    /\ IF check_duplicate(url_hash_of(w.enlace), calculate_hash(contenido))
       THEN /\ inflight' = inflight \ {w}
            /\ last_op' = [name |-> "worker_skip", enlace |-> w.enlace,
                           why |-> "contenido"]
       ELSE /\ inflight' = (inflight \ {w}) \cup
                   {[w EXCEPT !.pc = "insert", !.contenido = contenido]}
            /\ last_op' = [name |-> "worker_checked", enlace |-> w.enlace]
    /\ UNCHANGED <<nonStoreVars, now, scraping_items, next_id>>

\* async with lock: insert_scraping_item, INSERT ... ON CONFLICT (url_hash)
\* DO NOTHING
worker_insert(w) ==
    /\ w \in inflight
    /\ w.pc = "insert"
    /\ inflight' = inflight \ {w}
    /\ IF RowsWithUrlHash(url_hash_of(w.enlace)) # {}
       THEN /\ UNCHANGED <<scraping_items, next_id>>
            /\ last_op' = [name |-> "worker_skip", enlace |-> w.enlace,
                           why |-> "INSERT 0 0"]
       ELSE /\ next_id < MaxHarvest
            /\ next_id' = next_id + 1
            /\ scraping_items' =
                   (next_id + 1 :>
                        harvested_row(next_id + 1, w.enlace, w.contenido))
                   @@ scraping_items
            /\ last_op' = [name |-> "worker_insert", enlace |-> w.enlace,
                           id |-> next_id + 1]
    /\ UNCHANGED <<nonStoreVars, now>>

NextWorkers ==
    \/ \E enlace \in WorkerLinks : worker_check_url(enlace)
    \/ \E w \in inflight, contenido \in HarvestedContents :
          worker_check_content(w, contenido)
    \/ \E w \in inflight : worker_insert(w)

SpecWorkers == InitScraper /\ [][NextWorkers]_vars

\* C38: within one scrape cycle no two rows with the same content_hash are
\* inserted: of two workers that fetch different URLs with identical
\* content at most one inserts a row, under every interleaving of their
\* duplicate checks and inserts.
C38_OneRowPerContentHash ==
    \A i, j \in Ids :
        scraping_items[i].content_hash = scraping_items[j].content_hash
            => i = j

\* what the workers do guarantee: one row per url_hash, and an insert only
\* by a worker whose checks found neither hash at the time they ran
C38_OneRowPerUrlHash ==
    \A i, j \in Ids :
        scraping_items[i].url_hash = scraping_items[j].url_hash => i = j


\* ======================================================================
\* 19. One article per item (auto_prepare.py, news_curator.py,
\*     auto_publish.py, routes/scraping_items.py)
\* ======================================================================

\* the Curator on one item of its SELECT: WHERE si.status =
\* 'ready_to_publish', whatever the publication link; create_publication
\* inserts under the unique index on scraping_item_id, and publish_items
\* logs the error of a rejected INSERT
curator_publish_selected(item_id) ==
    /\ item_id \in Ids
    /\ scraping_items[item_id].status = "ready_to_publish"
    /\ LET title == title_to_use(scraping_items[item_id])
           inserted == insert_publication(item_id, title)
       IN  IF StrLen(title) = 0 \/ inserted = publications
           THEN /\ UNCHANGED <<scraping_items, publications>>
                /\ last_op' = [name |-> "curator_publish", id |-> item_id,
                               action |-> "error"]
           ELSE /\ publications' = inserted
                /\ scraping_items' =
                       mark_published(scraping_items, item_id,
                                      Cardinality(DOMAIN publications) + 1,
                                      "curator_published")
                /\ last_op' = [name |-> "curator_publish", id |-> item_id,
                               action |-> "published"]
    /\ PathFrame

\* override_title of a publish request: absent, or a headline of the
\* admin's own
OverrideTitles == {NullTitle, TitleD}

\* the stages of the scheduler and the admin's manual publish, interleaved
NextOnce ==
    \/ \E item_id \in Ids, r \in LifecycleResponses :
          process_single_item(item_id, r)
    \/ auto_prepare_start
    \/ auto_prepare_process_item
    \/ auto_prepare_cleanup
    \/ auto_publish_start
    \/ auto_publish_process_item
    \/ \E item_id \in Ids : curator_publish_selected(item_id)
    \/ \E item_id \in Ids, override_title \in OverrideTitles :
          publish_scraping_item_as(item_id, override_title)

SpecOnce == InitLifecycle /\ [][NextOnce]_vars

\* the published articles created for an item
ArticlesOf(item_id) ==
    {p \in DOMAIN publications :
        publications[p].scraping_item_id = item_id}

\* the item has a publication link
Linked(item_id) == scraping_items[item_id].publication_id # 0

\* C39: no item is ever published twice: under every interleaving of the
\* stages (enrichment, Quality Gate, Auto-Publisher, Curator) with the
\* manual publish at most one published article is created for an item,
\* and once an item has a publication link no stage overwrites that link
\* or returns the item to ready_to_publish.
C39_PublishedOnce ==
    /\ [](\A item_id \in Ids : Cardinality(ArticlesOf(item_id)) <= 1)
    /\ [][\A item_id \in Ids :
            Linked(item_id) =>
                /\ scraping_items'[item_id].publication_id
                      = scraping_items[item_id].publication_id
                /\ scraping_items'[item_id].status # "ready_to_publish"]_vars

\* what holds: at most one article per item, a link once set stays, and it
\* is the link to that article
C39_OneArticleAndItsLink ==
    /\ [](\A item_id \in Ids :
            /\ Cardinality(ArticlesOf(item_id)) <= 1
            /\ Linked(item_id) =>
                  ArticlesOf(item_id)
                      = {scraping_items[item_id].publication_id})
    /\ [][\A item_id \in Ids :
            Linked(item_id) =>
                scraping_items'[item_id].publication_id
                    = scraping_items[item_id].publication_id]_vars

\* ==========================================================================
\* 20. Repeated requests of one command
\* ==========================================================================
\* request_run_now and request_curate overwrite the flag and the parameters
\* of the controller; the loop copies the parameters into its locals as it
\* clears the flag (scraper_service.py 867-881, 924-937) and hands them to
\* the stage.

\* data.get('user_id') of POST /run-now
UserIds == {Null, "u1"}

requests ==
    \/ \E source_ids \in SourceIdLists, user_id \in UserIds :
          handle_run_now(source_ids, user_id)
    \/ \E dry_run \in BOOLEAN : handle_curate(dry_run)
    \/ handle_stop
    \/ signal_handler

NextRequests ==
    \/ loop_step
    \/ \E status \in ScrapeOutcomes : scrape_source(status)
    \/ requests

SpecRequests == InitService /\ [][NextRequests]_vars

StagedCommands == {"run_now", "curate"}

\* the parameters a request left in the controller
run_parameters(c) == <<c.run_source_ids, c.run_user_id>>

\* a request stores its own parameters and raises the flag
RequestStoresItsParameters ==
    /\ \A source_ids \in SourceIdLists, user_id \in UserIds :
          handle_run_now(source_ids, user_id) =>
              /\ controller'.run_now_requested
              /\ run_parameters(controller') = <<source_ids, user_id>>
    /\ \A dry_run \in BOOLEAN :
          handle_curate(dry_run) =>
              /\ controller'.curate_now_requested
              /\ controller'.curate_dry_run = dry_run

\* the loop serves cmd: it clears the flag and begins the stage, once, with
\* the parameters the controller held
Serves(cmd) ==
    /\ requested(controller, cmd)
    /\ ~requested(controller', cmd)
    /\ sched'.iter.command = cmd
    /\ sched'.pc = "stage"
    /\ sched.running = {}
    /\ sched'.running = {first_stage(cmd)}
    /\ cmd = "run_now" =>
          <<sched'.source_ids, sched'.user_id>> = run_parameters(controller)
    /\ cmd = "curate" => sched'.dry_run = controller.curate_dry_run

\* a flag falls only as the loop serves its command, and between a request
\* and that moment nothing but a request changes the parameters
OnlyTheLoopTakes ==
    \A cmd \in StagedCommands :
        /\ requested(controller, cmd) /\ ~requested(controller', cmd)
              => sched.pc = "top" /\ Serves(cmd)
        /\ requested(controller, cmd) /\ requested(controller', cmd)
              /\ last_op'.name # "command"
              => /\ cmd = "run_now" =>
                       run_parameters(controller')
                           = run_parameters(controller)
                 /\ cmd = "curate" =>
                       controller'.curate_dry_run
                           = controller.curate_dry_run

\* the loop makes its while test and goes on from it
LoopTest == sched.pc = "top" /\ sched'.pc # "top"

\* cmd is requested and no command before it in the order is
FirstPending(cmd) ==
    /\ requested(controller, cmd)
    /\ \A other \in PendingCommands(controller) :
          CommandRank(cmd) <= CommandRank(other)

\* cmd was requested again while the iteration serving it was under way
RequestedWhileRunning(cmd) ==
    sched.iter.command = cmd /\ requested(controller, cmd)

\* C40: of several requests of one command made before the loop sees the
\* flag, the stage runs once with the parameters of the latest; a request
\* made while the command's stage runs is not lost: the loop's next
\* command tests serve it (after the commands before it in the order) with
\* one further run.
C40_RequestCausesOneRun ==
    [][/\ RequestStoresItsParameters
       /\ OnlyTheLoopTakes
       /\ \A cmd \in StagedCommands :
             LoopTest /\ RequestedWhileRunning(cmd) /\ FirstPending(cmd)
                 => Serves(cmd)]_vars

\* the same, for a loop that has not been told to stop: whenever the loop
\* makes its tests with no stop or shutdown requested, it serves the first
\* requested command
C40_RequestCausesOneRunUnlessStopped ==
    [][/\ RequestStoresItsParameters
       /\ OnlyTheLoopTakes
       /\ \A cmd \in StagedCommands :
             LoopTest /\ ~stop_seen /\ FirstPending(cmd) => Serves(cmd)]_vars

\* a second run-now, requested for source 1 by u1 while the run over all
\* sources was under way (source 2 has been scraped), is being run
C40_Witness ==
    /\ sched.pc = "stage"
    /\ sched.iter.command = "run_now"
    /\ sched.running = {"run_scraping"}
    /\ sched.source_ids = some_list(<<1>>)
    /\ sched.user_id = "u1"
    /\ \E ss \in scraping_sources :
          ss.id = 2 /\ ss.last_scrape_message # ""


====
